---- MODULE Spec2Model ----
(***************************************************************************)
(* Verification model of mbf-bam-quantifier: the parallel chunked          *)
(* quantification engine (src/engine.rs, src/engine/chunked_genome.rs),    *)
(* the per-position deduplicator (src/deduplication.rs) and the barcode    *)
(* corrector (src/barcodes.rs).                                            *)
(*                                                                         *)
(* Coordinates are scaled down: the chunk size of 10_000_000 bases is      *)
(* modelled by ChunkSize, references are a handful of bases long.          *)
(* Byte strings are sequences of one-character strings.                    *)
(***************************************************************************)
EXTENDS Integers, Sequences, FiniteSets, TLC

VARIABLES
    \* ---- merged_interval_length harness
    ivs,             \* the argument slice
    mil_result,      \* the returned length, or Unset
    \* ---- barcode corrector harness
    whitelists,      \* CellBarcodes.whitelists
    max_hamming,     \* CellBarcodes.max_hamming
    raw_barcode,     \* the argument of correct()
    corrected,       \* result of correct(raw_barcode), or Unset
    corrected_again, \* result of correct() on the bytes of corrected, or Unset
    \* ---- the run's inputs
    targets,         \* BAM header: sequence of [name, len]; tid = index - 1
    trees,           \* reference name -> set of regions [start, end, gene, strand]
    bam,             \* the aligned records, coordinate sorted
    \* ---- ChunkedGenome / ChunkedGenomeIterator
    chromosomes,     \* ChunkedGenome.chromosomes
    it,              \* number of entries of chromosomes the iterator has consumed
    last_start,
    last_chr,
    last_tid,
    last_chr_length,
    stop,            \* the local `stop` of next() while the extension loop runs
    cg_pc,           \* "next": between calls, "loop": in the extension loop,
                     \* "panic": the WHAT? branch, "collected": next() returned None
    chunks,          \* the chunks collected so far
    \* ---- Engine
    cfg,             \* the engine's configuration (matcher, strategy, dedup, extractors, ...)
    \* ---- one chunk task of quantify_bam, record by record
    w,               \* the task's local state
    \* ---- Engine::quantify_bam
    tasks,           \* per chunk: the state of its task in the thread pool
    output,          \* the Output behind the mutex
    output_lock,     \* None, or Some(i): the task of chunk i holds the guard of the mutex
    result,          \* what quantify_bam returned, and the files written
    \* ---- combine_temporary_bams
    output_header,   \* the reference names of the output header, in header order
    chunk_list,      \* the chunks whose names are passed, in the order passed
    combined,        \* Unset, or what combine_temporary_bams returned
    \* ---- Input::read_gtf
    parsed,          \* the GTFEntrys of one feature type, as parse_minimal returned them
    duplicate_handling, \* "Collapse" or "Rename"
    gtf_entries,     \* Unset, or the entries after read_gtf
    \* ---- ReadToGeneMatcher::hits on one read
    m_chunk,         \* the chunk the matcher is asked about
    m_read,          \* the read handed to hits
    m_hits           \* Unset, or what hits returned

mil_vars == <<ivs, mil_result>>

bc_cfg_vars == <<whitelists, max_hamming>>

bc_vars == <<raw_barcode, corrected, corrected_again>>

in_vars == <<targets, trees, bam>>

cg_vars == <<chromosomes, it, last_start, last_chr, last_tid, last_chr_length, stop, cg_pc, chunks>>

w_vars == <<w>>

eng_vars == <<tasks, output, result, output_lock>>

cb_vars == <<output_header, chunk_list, combined>>

gtf_vars == <<parsed, duplicate_handling, gtf_entries>>

match_vars == <<m_chunk, m_read, m_hits>>

vars == <<mil_vars, bc_cfg_vars, match_vars, bc_vars, in_vars, cg_vars, cfg, w_vars, eng_vars, cb_vars, gtf_vars>>

----------------------------------------------------------------------------
(* Generic helpers                                                          *)

Unset == [tag |-> "Unset"]

None == [tag |-> "None"]

Some(v) == [tag |-> "Some", v |-> v]

Panic == [tag |-> "Panic"]

Min(a, b) == IF a <= b THEN a ELSE b

Max(a, b) == IF a >= b THEN a ELSE b

\* all sequences over S of length 0..n
SeqsUpTo(S, n) == UNION {[1..k -> S] : k \in 0..n}

\* all subsets of S with at most n elements
SubsetsUpTo(S, n) == {T \in SUBSET S : Cardinality(T) <= n}

RECURSIVE SumSeq(_)
SumSeq(s) == IF s = <<>> THEN 0 ELSE Head(s) + SumSeq(Tail(s))

----------------------------------------------------------------------------
(* merged_interval_length (src/engine.rs)                                   *)

MaxIvs == 3

MaxIvCoord == 4

\* a.start.cmp(&b.start).then_with(|| a.end.cmp(&b.end))
IvLess(a, b) == a.start < b.start \/ (a.start = b.start /\ a.end < b.end)

RECURSIVE SortIvs(_)
SortIvs(s) ==
    IF s = <<>> THEN <<>>
    ELSE LET i == CHOOSE i \in 1..Len(s) : \A j \in 1..Len(s) : ~IvLess(s[j], s[i])
             rest == [k \in 1..(Len(s) - 1) |-> IF k < i THEN s[k] ELSE s[k + 1]]
         IN <<s[i]>> \o SortIvs(rest)

\* a sweep that forgets the max() when merging: current_end = iv.end
RECURSIVE Sweep_no_max(_, _)
Sweep_no_max(rest, st) ==
    IF rest = <<>> THEN st
    ELSE LET iv == Head(rest)
         IN IF iv.start <= st.current_end
            THEN Sweep_no_max(Tail(rest), [st EXCEPT !.current_end = iv.end])
            ELSE Sweep_no_max(Tail(rest),
                              [current_start |-> iv.start,
                               current_end   |-> iv.end,
                               total         |-> st.total + (st.current_end - st.current_start)])

\* the sweep over ivs.iter().skip(1); st = [current_start, current_end, total]
RECURSIVE Sweep(_, _)
Sweep(rest, st) ==
    IF rest = <<>> THEN st
    ELSE LET iv == Head(rest)
         IN IF iv.start <= st.current_end
            THEN Sweep(Tail(rest), [st EXCEPT !.current_end = Max(st.current_end, iv.end)])
            ELSE Sweep(Tail(rest),
                       [current_start |-> iv.start,
                        current_end   |-> iv.end,
                        total         |-> st.total + (st.current_end - st.current_start)])

merged_interval_length(list) ==
    IF list = <<>> THEN 0
    ELSE LET sorted == SortIvs(list)
             st == Sweep(Tail(sorted),
                         [current_start |-> sorted[1].start,
                          current_end   |-> sorted[1].end,
                          total         |-> 0])
         IN st.total + (st.current_end - st.current_start)

Intervals == {iv \in [start : 0..MaxIvCoord, end : 0..MaxIvCoord] : iv.start <= iv.end}

InitMIL ==
    /\ ivs \in SeqsUpTo(Intervals, MaxIvs)
    /\ mil_result = Unset

IdleMIL ==
    /\ ivs = <<>>
    /\ mil_result = Unset

CallMergedIntervalLength ==
    /\ mil_result = Unset
    /\ mil_result' = Some(merged_interval_length(ivs))
    /\ UNCHANGED <<ivs, bc_cfg_vars, match_vars, bc_vars, in_vars, cb_vars, gtf_vars, cg_vars, cfg, w_vars, eng_vars>>

\* the integer points covered by the union of the intervals of a list
CoveredPoints(list) ==
    {p \in 0..MaxIvCoord : \E i \in 1..Len(list) : list[i].start <= p /\ p < list[i].end}

\* C8: for any list of half-open intervals (any order, overlapping, touching,
\* disjoint, empty list) merged_interval_length returns the number of distinct
\* integer points covered by the union of the intervals.
C8_MergedIntervalLengthSound ==
    mil_result.tag = "Some" => mil_result.v = Cardinality(CoveredPoints(ivs))

\* the function has run on an unsorted list holding a nested pair and a gap
C8_Witness ==
    /\ mil_result.tag = "Some"
    /\ Len(ivs) = 3
    /\ \E i, j, k \in 1..3 :
          /\ i < j
          /\ ivs[j].start < ivs[i].start
          /\ ivs[j].end >= ivs[i].end
          /\ ivs[i].start < ivs[i].end
          /\ ivs[k].start > ivs[j].end
          /\ ivs[k].start < ivs[k].end
    /\ mil_result.v = Cardinality(CoveredPoints(ivs))

----------------------------------------------------------------------------
(* Barcode corrector (src/barcodes.rs)                                      *)

Sep == "_"

Bases == {"A", "T"}

MaxSegLen == 2

MaxBarcodeLen == 3

MaxWhitelistSize == 2

MaxWhitelists == 2

MaxHamming == 1

\* barcode.split(|&b| b == self.separator_char): the segments between
\* separators; an empty input yields one empty segment
RECURSIVE SplitFrom(_, _)
SplitFrom(bytes, cur) ==
    IF bytes = <<>> THEN <<cur>>
    ELSE IF Head(bytes) = Sep
         THEN <<cur>> \o SplitFrom(Tail(bytes), <<>>)
         ELSE SplitFrom(Tail(bytes), Append(cur, Head(bytes)))

split(bytes) == SplitFrom(bytes, <<>>)

\* bio::alignment::distance::hamming as called by find_closest_by_hamming:
\* number of differing positions; the library asserts equal lengths
hamming(a, b) == Cardinality({i \in 1..Len(a) : a[i] /= b[i]})

\* The whitelist is a HashSet, iterated in an arbitrary order: every entry
\* within the distance can be the first one found, and an entry of another
\* length met before it makes hamming() panic.  The set of possible outcomes.
find_closest_by_hamming(part, whitelist) ==
    IF max_hamming = 0 THEN {None}
    ELSE LET fits == {e \in whitelist : Len(e) = Len(part) /\ hamming(e, part) <= max_hamming}
             bad  == {e \in whitelist : Len(e) /= Len(part)}
         IN {Some(e) : e \in fits}
            \cup (IF bad /= {} THEN {Panic} ELSE {})
            \cup (IF fits = {} /\ bad = {} THEN {None} ELSE {})

\* if !out.is_empty() { out.push(separator) }; out.extend(part)
push_segment(out, part) == (IF out /= <<>> THEN Append(out, Sep) ELSE out) \o part

\* the loop over parts.zip(self.whitelists.iter()), from pair i on
RECURSIVE correct_from(_, _, _)
correct_from(parts, i, out) ==
    IF i > Min(Len(parts), Len(whitelists)) THEN {Some(out)}
    ELSE IF parts[i] \in whitelists[i]
         THEN correct_from(parts, i + 1, push_segment(out, parts[i]))
         ELSE UNION {IF r.tag = "Some"
                     THEN correct_from(parts, i + 1, push_segment(out, r.v))
                     ELSE {r} : r \in find_closest_by_hamming(parts[i], whitelists[i])}

\* CellBarcodes::correct: the set of possible results for one barcode
correct(barcode) == correct_from(split(barcode), 1, <<>>)

Segments == SeqsUpTo(Bases, MaxSegLen)

InitBarcode ==
    /\ whitelists \in SeqsUpTo(SubsetsUpTo(Segments, MaxWhitelistSize), MaxWhitelists)
    /\ max_hamming \in 0..MaxHamming
    /\ raw_barcode \in SeqsUpTo(Bases \cup {Sep}, MaxBarcodeLen)
    /\ corrected = Unset
    /\ corrected_again = Unset

IdleBarcode ==
    /\ raw_barcode = <<>>
    /\ corrected = Unset
    /\ corrected_again = Unset

CallCorrect ==
    /\ corrected = Unset
    /\ corrected' \in correct(raw_barcode)
    /\ UNCHANGED <<raw_barcode, corrected_again, bc_cfg_vars, match_vars, mil_vars, in_vars, cb_vars, gtf_vars, cg_vars, cfg, w_vars, eng_vars>>

CallCorrectAgain ==
    /\ corrected.tag = "Some"
    /\ corrected_again = Unset
    /\ corrected_again' \in correct(corrected.v)
    /\ UNCHANGED <<raw_barcode, corrected, bc_cfg_vars, match_vars, mil_vars, in_vars, cb_vars, gtf_vars, cg_vars, cfg, w_vars, eng_vars>>

\* every segment of the barcode has a whitelist and is a member of it
AllSegmentsWhitelisted(barcode) ==
    LET parts == split(barcode)
    IN /\ Len(parts) <= Len(whitelists)
       /\ \A i \in 1..Len(parts) : parts[i] \in whitelists[i]

\* C9: if every separator-delimited segment of a barcode is a member of its
\* corresponding whitelist, correct() returns Some of exactly the input bytes,
\* for every max_hamming; and correcting a corrected barcode returns it again.
C9_CorrectionIdempotent ==
    /\ (corrected /= Unset /\ AllSegmentsWhitelisted(raw_barcode))
          => corrected = Some(raw_barcode)
    /\ corrected_again /= Unset => corrected_again = corrected

\* segment part has an entry of whitelist wl equal to it or within max_hamming
AcceptableEntries(part, wl) ==
    {e \in wl : e = part \/ (Len(e) = Len(part) /\ hamming(e, part) <= max_hamming)}

\* C10: when correct() returns Some(c) for a raw barcode with k segments, c has
\* exactly k segments joined by the separator and segment i of c is a member
\* of whitelist i equal to raw segment i or within Hamming distance
\* max_hamming of it; if a segment has no such entry the result is None.
C10_CorrectionShape ==
    corrected /= Unset =>
        LET parts == split(raw_barcode)
        IN /\ corrected.tag = "Some" =>
                LET c == split(corrected.v)
                IN /\ Len(c) = Len(parts)
                   /\ \A i \in 1..Len(parts) :
                         /\ i <= Len(whitelists)
                         /\ c[i] \in AcceptableEntries(parts[i], whitelists[i])
           /\ (\E i \in 1..Len(parts) :
                   i > Len(whitelists) \/ AcceptableEntries(parts[i], whitelists[i]) = {})
                => corrected = None

----------------------------------------------------------------------------
(* Reference chunker (src/engine/chunked_genome.rs)                         *)

\* let chunk_size = 10_000_000, scaled
chunk_size == 3

MaxRefLen == 6

MaxRegionCoord == 6

MaxRegions == 2

RefNames == <<"chr1", "chr2">>

Strands == {"Forward", "Reverse", "Unstranded"}

\* header.tid(name): the index of the name among the targets, or None
tid_of(name) ==
    IF \E i \in 1..Len(targets) : targets[i].name = name
    THEN Some((CHOOSE i \in 1..Len(targets) : targets[i].name = name) - 1)
    ELSE None

target_len(tid) == targets[tid + 1].len

\* index_stats(): the tids with mapped_count > 0
tids_with_reads == {r.tid : r \in {bam[i] : i \in 1..Len(bam)}}

\* the names ChunkedGenome::new keeps: keys of the trees that are in the
\* header and have reads
chrs_in_tree_and_bam ==
    {x \in DOMAIN trees : tid_of(x).tag = "Some" /\ tid_of(x).v \in tids_with_reads}

\* all orders of a finite set (HashMap key order is arbitrary)
Orders(S) == {q \in [1..Cardinality(S) -> S] : \A i, j \in 1..Cardinality(S) : i /= j => q[i] /= q[j]}

\* ChunkedGenome::new followed by iter()
ChunkedGenome_iter ==
    /\ chromosomes \in Orders(chrs_in_tree_and_bam)
    /\ it = 0
    /\ last_start = 0
    /\ last_tid = 0
    /\ last_chr_length = 0
    /\ last_chr = ""
    /\ stop = 0
    /\ cg_pc = "next"
    /\ chunks = <<>>

\* next_tree.find(stop..stop + 1): the regions intersecting the query; the
\* interval tree reports an entry when both ranges are non-empty and overlap
find(tree, qstart, qend) ==
    {r \in tree : r.start < r.end /\ qstart < qend /\ r.end > qstart /\ r.start < qend}

Chunk(chr, tid, start, stop_) == [chr |-> chr, tid |-> tid, start |-> start, stop |-> stop_]

\* the decimal digits of a number, as characters
DigitChars == <<"0", "1", "2", "3", "4", "5", "6", "7", "8", "9">>

RECURSIVE digits(_)
digits(n) == IF n < 10 THEN <<DigitChars[n + 1]>> ELSE Append(digits(n \div 10), DigitChars[(n % 10) + 1])

\* the bytes of a reference name, cut at its colons; a name without a colon
\* is kept as one token
name_bytes(name) == IF name = "c:1" THEN <<"c", ":", "1">> ELSE <<name>>

\* format!("{}:{}:{}", self.chr, self.start, self.stop)
str_id(c) == name_bytes(c.chr) \o <<":">> \o digits(c.start) \o <<":">> \o digits(c.stop)

\* next() that moves to the next reference only when last_start has passed
\* the reference length
CgNextBegin_past_end ==
    /\ cg_pc = "next"
    /\ IF last_start > last_chr_length \/ last_chr = ""
       THEN /\ it < Len(chromosomes)
            /\ LET next_chr == chromosomes[it + 1]
                   tid == tid_of(next_chr).v
               IN /\ last_tid' = tid
                  /\ last_chr_length' = target_len(tid)
                  /\ last_chr' = next_chr
                  /\ last_start' = 0
                  /\ stop' = 0 + chunk_size
            /\ it' = it + 1
       ELSE /\ stop' = last_start + chunk_size
            /\ UNCHANGED <<it, last_tid, last_chr_length, last_chr, last_start>>
    /\ cg_pc' = "loop"
    /\ UNCHANGED <<chromosomes, chunks, mil_vars, bc_cfg_vars, match_vars, bc_vars, in_vars, cb_vars, gtf_vars, cfg, w_vars, eng_vars>>

\* next(), up to the entry of the extension loop (the tree is always present)
CgNextBegin ==
    /\ cg_pc = "next"
    /\ IF last_start >= last_chr_length
       THEN /\ it < Len(chromosomes)
            /\ LET next_chr == chromosomes[it + 1]
                   tid == tid_of(next_chr).v
               IN /\ last_tid' = tid
                  /\ last_chr_length' = target_len(tid)
                  /\ last_chr' = next_chr
                  /\ last_start' = 0
                  /\ stop' = 0 + chunk_size
            /\ it' = it + 1
       ELSE /\ stop' = last_start + chunk_size
            /\ UNCHANGED <<it, last_tid, last_chr_length, last_chr, last_start>>
    /\ cg_pc' = "loop"
    /\ UNCHANGED <<chromosomes, chunks, mil_vars, bc_cfg_vars, match_vars, bc_vars, in_vars, cb_vars, gtf_vars, cfg, w_vars, eng_vars>>

\* an iteration that sets stop to the start of the region found
CgLoopExtend_to_start ==
    /\ cg_pc = "loop"
    /\ \E entry \in find(trees[last_chr], stop, stop + 1) :
          stop' = entry.start /\ UNCHANGED cg_pc
    /\ UNCHANGED <<chromosomes, it, last_start, last_chr, last_tid, last_chr_length, chunks,
                   mil_vars, bc_cfg_vars, match_vars, bc_vars, in_vars, cb_vars, gtf_vars, cfg, w_vars, eng_vars>>

\* one iteration of the loop that finds a region: stop = iv.end + 1
CgLoopExtend ==
    /\ cg_pc = "loop"
    /\ \E entry \in find(trees[last_chr], stop, stop + 1) :
          IF entry.end + 1 < stop
          THEN cg_pc' = "panic" /\ UNCHANGED stop
          ELSE stop' = entry.end + 1 /\ UNCHANGED cg_pc
    /\ UNCHANGED <<chromosomes, it, last_start, last_chr, last_tid, last_chr_length, chunks,
                   mil_vars, bc_cfg_vars, match_vars, bc_vars, in_vars, cb_vars, gtf_vars, cfg, w_vars, eng_vars>>

\* a chunker that cuts at the tentative stop without consulting the tree
CgLoopBreak_unadjusted ==
    /\ cg_pc = "loop"
    /\ chunks' = Append(chunks, Chunk(last_chr, last_tid, last_start, stop))
    /\ last_start' = stop
    /\ cg_pc' = "next"
    /\ UNCHANGED <<chromosomes, it, last_chr, last_tid, last_chr_length, stop,
                   mil_vars, bc_cfg_vars, match_vars, bc_vars, in_vars, cb_vars, gtf_vars, cfg, w_vars, eng_vars>>

\* a chunker whose next chunk starts one chunk_size after the last start,
\* whatever the extension loop did to stop
CgLoopBreak_fixed_stride ==
    /\ cg_pc = "loop"
    /\ find(trees[last_chr], stop, stop + 1) = {}
    /\ chunks' = Append(chunks, Chunk(last_chr, last_tid, last_start, stop))
    /\ last_start' = last_start + chunk_size
    /\ cg_pc' = "next"
    /\ UNCHANGED <<chromosomes, it, last_chr, last_tid, last_chr_length, stop,
                   mil_vars, bc_cfg_vars, match_vars, bc_vars, in_vars, cb_vars, gtf_vars, cfg, w_vars, eng_vars>>

\* the iteration that finds no region: break, build the chunk, return it
CgLoopBreak ==
    /\ cg_pc = "loop"
    /\ find(trees[last_chr], stop, stop + 1) = {}
    /\ chunks' = Append(chunks, Chunk(last_chr, last_tid, last_start, stop))
    /\ last_start' = stop
    /\ cg_pc' = "next"
    /\ UNCHANGED <<chromosomes, it, last_chr, last_tid, last_chr_length, stop,
                   mil_vars, bc_cfg_vars, match_vars, bc_vars, in_vars, cb_vars, gtf_vars, cfg, w_vars, eng_vars>>

\* self.it.next()? returns None: the iterator is exhausted
CgExhausted ==
    /\ cg_pc = "next"
    /\ last_start >= last_chr_length
    /\ it = Len(chromosomes)
    /\ cg_pc' = "collected"
    /\ UNCHANGED <<chromosomes, it, last_start, last_chr, last_tid, last_chr_length, stop, chunks,
                   mil_vars, bc_cfg_vars, match_vars, bc_vars, in_vars, cb_vars, gtf_vars, cfg, w_vars, eng_vars>>

IdleChunker ==
    /\ chromosomes = <<>>
    /\ it = 0
    /\ last_start = 0
    /\ last_tid = 0
    /\ last_chr_length = 0
    /\ last_chr = ""
    /\ stop = 0
    /\ cg_pc = "collected"
    /\ chunks = <<>>

IdleInputs ==
    /\ targets = <<>>
    /\ trees = <<>>
    /\ bam = <<>>

IdleBarcodeCfg ==
    /\ whitelists = <<>>
    /\ max_hamming = 0

\* the regions a tree may hold
Regions ==
    {r \in [start : 0..MaxRegionCoord, end : 0..MaxRegionCoord, gene : {"g1"}, strand : {"Forward"}] :
        r.start < r.end}

\* a record that only marks its reference as having reads
MarkerRead(tid) == [tid |-> tid, pos |-> 0]

InitChunkerInputs ==
    /\ \E l1 \in 1..MaxRefLen, l2 \in {2, 4} :
          targets = <<[name |-> RefNames[1], len |-> l1], [name |-> RefNames[2], len |-> l2]>>
    /\ \E t1 \in SubsetsUpTo(Regions, MaxRegions),
          t2 \in {{}, {[start |-> 2, end |-> 4, gene |-> "g1", strand |-> "Forward"]}} :
          trees \in {[x \in K |-> IF x = RefNames[1] THEN t1 ELSE t2] :
                        K \in {{RefNames[1]}, {RefNames[1], RefNames[2]}}}
    /\ bam \in {<<MarkerRead(0)>>, <<MarkerRead(0), MarkerRead(1)>>}

\* C3: for every chunk produced with a region index and every region [s, e)
\* of that index on the chunk's reference, neither the chunk's start nor its
\* stop lies strictly inside the region.
C3_FeatureNonSplitting ==
    \A i \in 1..Len(chunks) :
        \A r \in trees[chunks[i].chr] :
            \A b \in {chunks[i].start, chunks[i].stop} : ~(r.start < b /\ b < r.end)

\* a chunk whose stop was moved past a region that straddled the tentative stop
C3_Witness ==
    /\ cg_pc = "collected"
    /\ \E i \in 1..Len(chunks) :
          /\ chunks[i].stop > chunks[i].start + chunk_size
          /\ \E r \in trees[chunks[i].chr] :
                /\ r.start < chunks[i].start + chunk_size
                /\ chunks[i].start + chunk_size < r.end
                /\ r.end <= chunks[i].stop

\* C11 (as stated): every chunk the chunker emits satisfies
\* start < stop <= length of its reference.
C11_ChunkWithinReference ==
    \A i \in 1..Len(chunks) :
        /\ chunks[i].start < chunks[i].stop
        /\ chunks[i].stop <= target_len(chunks[i].tid)

\* C11 (amended): every chunk the chunker emits satisfies start < stop and
\* start < length of its reference; the stop of the last chunk of a reference
\* and a stop extended past a region may lie beyond the reference length.
C11_ChunkStartsWithinReference ==
    \A i \in 1..Len(chunks) :
        /\ chunks[i].start < chunks[i].stop
        /\ chunks[i].start < target_len(chunks[i].tid)
        /\ chunks[i].stop >= chunks[i].start + chunk_size

\* all chunks collected, among them a last chunk that ends beyond its
\* reference and a chunk whose stop was extended
C11_Witness ==
    /\ cg_pc = "collected"
    /\ \E i \in 1..Len(chunks) : chunks[i].stop > target_len(chunks[i].tid)
    /\ \E i \in 1..Len(chunks) : chunks[i].stop > chunks[i].start + chunk_size

\* C12: chunks of the same reference do not overlap and follow each other in
\* the list with start equal to the previous stop, and the ids
\* reference:start:stop of the chunk list are pairwise distinct.
C12_ChunksOrderedDistinct ==
    /\ \A i, j \in 1..Len(chunks) :
          i < j =>
            /\ chunks[i].chr = chunks[j].chr => chunks[i].stop <= chunks[j].start
            /\ str_id(chunks[i]) /= str_id(chunks[j])
    /\ \A i \in 1..(Len(chunks) - 1) :
          chunks[i].chr = chunks[i + 1].chr => chunks[i + 1].start = chunks[i].stop

\* all chunks collected: two references, one of them with a chunk whose stop
\* was extended and a chunk after it
C12_Witness ==
    /\ cg_pc = "collected"
    /\ \E i, j \in 1..Len(chunks) : chunks[i].chr /= chunks[j].chr
    /\ \E i \in 1..(Len(chunks) - 1) :
          /\ chunks[i].chr = chunks[i + 1].chr
          /\ chunks[i].stop > chunks[i].start + chunk_size

----------------------------------------------------------------------------
(* Records, configuration, interner                                         *)

\* An aligned record: tid, pos (raw leftmost position), clip (leading
\* soft-clip length), len (reference length of its single aligned block),
\* rev (is_reverse), filt (some configured filter's remove_read is true),
\* bc / umi (what the extractors return for it: Err, None or Some(bytes)),
\* nh (NH tag), mapq.
Err == [tag |-> "Err"]

\* an i32 / usize far beyond every value the model reaches
usize_MAX == 1000000

u8_MAX == 255

saturating_add(a, b) == IF a + b > usize_MAX THEN usize_MAX ELSE a + b

\* let max_skip_len = if correct_reads_for_clipping { max_skip_len } else { 0 }
max_skip_len == IF cfg.correct_reads_for_clipping THEN cfg.max_skip_length ELSE 0

\* BamRecordExtensions::blocks: aligned_blocks() gives one [start, end) per
\* run of aligned bases; a deletion or a skipped region (gap) starts a new one
blocks(read) ==
    IF read.len2 = 0 THEN <<[start |-> read.pos, end |-> read.pos + read.len]>>
    ELSE <<[start |-> read.pos, end |-> read.pos + read.len],
           [start |-> read.pos + read.len + read.gap,
            end |-> read.pos + read.len + read.gap + read.len2]>>

\* BamRecordExtensions::corrected_pos
corrected_pos(read, msl) ==
    IF read.pos < 0 THEN None
    ELSE IF read.clip > msl THEN Panic
         ELSE Some(read.pos - read.clip)

\* read.no_of_alignments().try_into().unwrap_or(255), read.mapq()
MappingQuality(read) ==
    [no_of_alignments |-> IF read.nh > u8_MAX THEN u8_MAX ELSE read.nh, mapq |-> read.mapq]

\* this_mq > *mq under Ord for MappingQuality
mq_gt(a, b) ==
    \/ a.no_of_alignments > b.no_of_alignments
    \/ (a.no_of_alignments = b.no_of_alignments /\ a.mapq > b.mapq)

\* map helpers (HashMap / BTreeMap as functions)
EmptyMap == <<>>

Put(f, k, v) == [x \in (DOMAIN f) \cup {k} |-> IF x = k THEN v ELSE f[x]]

Get(f, k, default) == IF k \in DOMAIN f THEN f[k] ELSE default

RECURSIVE SetToSeq(_)
SetToSeq(S) ==
    IF S = {} THEN <<>>
    ELSE LET x == CHOOSE x \in S : TRUE IN <<x>> \o SetToSeq(S \ {x})

RECURSIVE SumMap(_)
SumMap(f) ==
    IF DOMAIN f = {} THEN 0
    ELSE LET k == CHOOSE k \in DOMAIN f : TRUE
         IN f[k] + SumMap([x \in (DOMAIN f) \ {k} |-> f[x]])

\* StringInterner: the token of a string is the index at which it was interned
has_interned(interner, str) == \E t \in 1..Len(interner) : interner[t] = str

interned(interner, str) == IF has_interned(interner, str) THEN interner ELSE Append(interner, str)

get_or_intern(interner, str) ==
    LET after == interned(interner, str)
    IN CHOOSE t \in 1..Len(after) : after[t] = str

resolve(interner, token) == interner[token]

----------------------------------------------------------------------------
(* Read-to-region matchers (src/engine.rs)                                  *)

\* Chunk::interval_outside
interval_outside(chunk, start, stop_) == chunk.start > stop_ \/ chunk.stop < start

\* variant of target_of: the configured direction is not consulted
target_of_forward_only(direction, is_reverse, region_strand) ==
    IF region_strand = "Unstranded" THEN "match"
    ELSE IF is_reverse = (region_strand = "Reverse") THEN "match" ELSE "reverse"

\* the match on (direction, read.is_reverse(), region_strand)
target_of(direction, is_reverse, region_strand) ==
    IF direction = "Ignore" \/ region_strand = "Unstranded" THEN "match"
    ELSE IF direction = "Forward"
         THEN (IF is_reverse = (region_strand = "Reverse") THEN "match" ELSE "reverse")
         ELSE (IF is_reverse = (region_strand = "Reverse") THEN "reverse" ELSE "match")

\* one entry of the (region, block) pairs: the region and its intersection
\* with the block
found_entry(r, iv) ==
    [gene |-> r.gene,
     strand |-> r.strand,
     intersected |-> [start |-> Max(r.start, iv.start), end |-> Min(r.end, iv.end)]]

found_entries(rs, iv) == [k \in 1..Len(rs) |-> found_entry(rs[k], iv)]

\* the (region, block) pairs the two nested loops of hits() visit, in order
found_in_block(tree, chunk, iv) ==
    IF interval_outside(chunk, iv.start, iv.end) THEN <<>>
    ELSE found_entries(SetToSeq(find(tree, iv.start, iv.end)), iv)

RECURSIVE found_in_blocks(_, _, _)
found_in_blocks(tree, chunk, bl) ==
    IF bl = <<>> THEN <<>>
    ELSE found_in_block(tree, chunk, Head(bl)) \o found_in_blocks(tree, chunk, Tail(bl))

RECURSIVE intern_all(_, _)
intern_all(interner, names) ==
    IF names = <<>> THEN interner
    ELSE intern_all(interned(interner, Head(names)), Tail(names))

\* variant of dedup_push: every token is pushed
RECURSIVE dedup_push_all(_, _)
dedup_push_all(acc, toks) ==
    IF toks = <<>> THEN acc
    ELSE dedup_push_all(Append(acc, Head(toks)), Tail(toks))

\* order-preserving removal of repeated tokens: if !target.iter().any(..) { push }
RECURSIVE dedup_push(_, _)
dedup_push(acc, toks) ==
    IF toks = <<>> THEN acc
    ELSE dedup_push(IF \E k \in 1..Len(acc) : acc[k] = Head(toks) THEN acc ELSE Append(acc, Head(toks)),
                    Tail(toks))

\* MultiRegionHandling applied to one list
multi_region(list) == IF cfg.multi_region = "Drop" /\ Len(list) > 1 THEN <<>> ELSE list

\* the gene names of a list of found entries, in order
genes_of(found) == [k \in 1..Len(found) |-> found[k].gene]

\* the interned tokens of a list of gene names
tokens_of(interner, names) == [j \in 1..Len(names) |-> get_or_intern(interner, names[j])]

\* the intersected intervals collected for one gene
intervals_of(entries) == [j \in 1..Len(entries) |-> entries[j].intersected]

\* variant of fully_covered: any overlap counts as full coverage
fully_covered_any(found, genes, bases_aligned) ==
    {g \in genes :
        merged_interval_length(intervals_of(SelectSeq(found, LAMBDA f : f.gene = g))) > 0}

\* the genes whose merged intersected length covers all aligned bases
fully_covered(found, genes, bases_aligned) ==
    {g \in genes :
        merged_interval_length(intervals_of(SelectSeq(found, LAMBDA f : f.gene = g))) = bases_aligned}

\* OverlapMode: the strictly contained genes, or every gene for the
\* non-strict intersection when none is strictly contained
overlap_kept(genes, strict) ==
    IF cfg.overlap = "IntersectionStrict" THEN strict
    ELSE IF strict /= {} THEN strict ELSE genes

\* MultiRegionHandling applied to the kept genes
multi_region_kept(kept) ==
    IF cfg.multi_region = "Drop" /\ Cardinality(kept) > 1 THEN {} ELSE kept

gene_set(found) == {found[k].gene : k \in 1..Len(found)}

\* apply_count_strategy for one target: per gene the merged intersected length
apply_count_strategy(interner, found, bases_aligned) ==
    tokens_of(interner,
              SetToSeq(multi_region_kept(
                  overlap_kept(gene_set(found),
                               fully_covered(found, gene_set(found), bases_aligned)))))

\* the found entries that fall to one target, in the order found
for_target(found, is_reverse, target) ==
    SelectSeq(found, LAMBDA f : target_of(cfg.direction, is_reverse, f.strand) = target)

aligned_bases(bl) == SumSeq([k \in 1..Len(bl) |-> bl[k].end - bl[k].start])

\* the two hit lists from the entries of each target
hits_by_target(gg_correct, gg_reverse, interner2, bases_aligned) ==
    IF cfg.overlap = "Union"
    THEN [correct |-> multi_region(dedup_push(<<>>, tokens_of(interner2, genes_of(gg_correct)))),
          reverse |-> multi_region(dedup_push(<<>>, tokens_of(interner2, genes_of(gg_reverse)))),
          interner |-> interner2]
    ELSE [correct |-> apply_count_strategy(interner2, gg_correct, bases_aligned),
          reverse |-> apply_count_strategy(interner2, gg_reverse, bases_aligned),
          interner |-> interner2]

hits_of_found(found, read, interner) ==
    hits_by_target(for_target(found, read.rev, "match"),
                   for_target(found, read.rev, "reverse"),
                   intern_all(interner, genes_of(found)),
                   aligned_bases(blocks(read)))

\* TreeMatcher::hits
TreeMatcher_hits(chunk, read, interner) ==
    hits_of_found(found_in_blocks(trees[chunk.chr], chunk, blocks(read)), read, interner)

\* variant of ReferenceMatcher::hits: the name always goes to the correct list
ReferenceMatcher_hits_unstranded(chunk, read, interner) ==
    [correct |-> <<get_or_intern(interner, chunk.chr)>>, reverse |-> <<>>,
     interner |-> interned(interner, chunk.chr)]

\* ReferenceMatcher::hits
ReferenceMatcher_hits(chunk, read, interner) ==
    LET interner2 == interned(interner, chunk.chr)
        tok == get_or_intern(interner, chunk.chr)
        is_correct == \/ cfg.direction = "Ignore"
                      \/ (cfg.direction = "Forward" /\ ~read.rev)
                      \/ (cfg.direction = "Reverse" /\ read.rev)
    IN IF is_correct
       THEN [correct |-> <<tok>>, reverse |-> <<>>, interner |-> interner2]
       ELSE [correct |-> <<>>, reverse |-> <<tok>>, interner |-> interner2]

\* ReadToGeneMatcher::hits
hits(chunk, read, interner) ==
    IF cfg.matcher = "TreeMatcher" THEN TreeMatcher_hits(chunk, read, interner)
    ELSE ReferenceMatcher_hits(chunk, read, interner)

----------------------------------------------------------------------------
(* Deduplication (src/deduplication.rs)                                     *)

\* DeduplicationStrategy::new_bucket
new_bucket == EmptyMap

\* DedupPerBucket::accept_read: the result and the storage afterwards
accept_read(storage, read, this_index, umi, barcode) ==
    IF cfg.dedup_mode = "NoDedup" THEN [result |-> "New", storage |-> storage]
    ELSE IF umi.tag /= "Some" \/ (cfg.dedup_mode = "SingleCell" /\ barcode.tag /= "Some")
         THEN [result |-> "Panic", storage |-> storage]
         ELSE LET key == IF cfg.dedup_mode = "Umi" THEN <<umi.v>> ELSE <<umi.v, barcode.v>>
                  this_mq == MappingQuality(read)
              IN IF key \in DOMAIN storage
                 THEN IF mq_gt(this_mq, storage[key].mq)
                      THEN [result |-> "DuplicateButPrefered",
                            idx |-> storage[key].index,
                            storage |-> Put(storage, key, [index |-> this_index, mq |-> this_mq])]
                      ELSE [result |-> "Duplicated", storage |-> storage]
                 ELSE [result |-> "New",
                       storage |-> Put(storage, key, [index |-> this_index, mq |-> this_mq])]

----------------------------------------------------------------------------
(* One chunk task of Engine::quantify_bam (src/engine.rs)                   *)

\* AnnotatedRead
Filtered == [kind |-> "Filtered"]

NotInRegion == [kind |-> "NotInRegion"]

Duplicate == [kind |-> "Duplicate"]

NoBarcode == [kind |-> "NoBarcode"]

NoUMI == [kind |-> "NoUMI"]

BarcodeNotInWhitelist(raw) == [kind |-> "BarcodeNotInWhitelist", raw |-> raw]

Counted(info) == [kind |-> "Counted", info |-> info]

\* PerPosition { reads_forward, reads_reverse, dedup_storage }
new_PerPosition == [reads_forward |-> <<>>, reads_reverse |-> <<>>, dedup_storage |-> new_bucket]

\* Output::per_chunk
per_chunk(output_kind) == [kind |-> output_kind, counter |-> EmptyMap, stat_counter |-> EmptyMap]

\* the bounds check made on the stored position in every bucket mode
positions_raw_bounds(read, chunk) ==
    IF cfg.bucket = "PerPosition"
    THEN IF max_skip_len > 0
         THEN LET rp == corrected_pos(read, max_skip_len)
              IN IF rp.tag = "Some" THEN Some(<<rp.v, read.pos>>) ELSE Panic
         ELSE Some(<<read.pos, read.pos>>)
    ELSE Some(<<chunk.stop + max_skip_len, read.pos>>)

\* the (corrected_position, position_for_bounds_check) of a record
positions(read, chunk) ==
    IF cfg.bucket = "PerPosition"
    THEN IF max_skip_len > 0
         THEN LET rp == corrected_pos(read, max_skip_len)
              IN IF rp.tag = "Some" THEN Some(<<rp.v, rp.v>>) ELSE Panic
         ELSE Some(<<read.pos, read.pos>>)
    ELSE Some(<<chunk.stop + max_skip_len, read.pos>>)

\* the bounds check without the exception for the first chunk
not_in_region_every_chunk(chunk, position_for_bounds_check) ==
    \/ position_for_bounds_check < chunk.start
    \/ position_for_bounds_check >= chunk.stop

\* the bounds check that pushes NotInRegion
not_in_region(chunk, position_for_bounds_check) ==
    \/ (chunk.start > 0 /\ position_for_bounds_check < chunk.start)
    \/ position_for_bounds_check >= chunk.stop

\* bam.fetch((chunk.tid, chunk.start, chunk.stop + max_skip_len)) returns the
\* records of that reference overlapping the window, in file order
in_fetch_window(chunk, read) ==
    /\ read.tid = chunk.tid
    /\ read.pos < chunk.stop + max_skip_len
    /\ read.pos + read.len > chunk.start

\* CounterPerChunk::count_reads for one list entry
category(hits_) ==
    IF hits_.correct = <<>>
    THEN (IF hits_.reverse = <<>> THEN "outside" ELSE "reverse")
    ELSE (IF hits_.reverse = <<>> THEN "correct" ELSE "ambiguous")

RECURSIVE add_correct(_, _)
add_correct(counter, genes) ==
    IF genes = <<>> THEN counter
    ELSE LET e == Get(counter, Head(genes), <<0, 0>>)
         IN add_correct(Put(counter, Head(genes), <<saturating_add(e[1], 1), e[2]>>), Tail(genes))

RECURSIVE add_reverse(_, _)
add_reverse(counter, genes) ==
    IF genes = <<>> THEN counter
    ELSE LET e == Get(counter, Head(genes), <<0, 0>>)
         IN add_reverse(Put(counter, Head(genes), <<e[1], saturating_add(e[2], 1)>>), Tail(genes))

RECURSIVE add_cells(_, _, _)
add_cells(counter, genes, barcode) ==
    IF genes = <<>> THEN counter
    ELSE add_cells(Put(counter, <<Head(genes), barcode>>, Get(counter, <<Head(genes), barcode>>, 0) + 1),
                   Tail(genes), barcode)

count_as(read) ==
    CASE read.kind = "Counted" -> category(read.info.hits)
      [] read.kind = "Filtered" -> "filtered"
      [] read.kind = "NotInRegion" -> "overfetch"
      [] read.kind = "Duplicate" -> "duplicate"
      [] read.kind = "NoBarcode" -> "no_barcode"
      [] read.kind = "NoUMI" -> "no_umi"
      [] read.kind = "BarcodeNotInWhitelist" -> "barcode_not_in_whitelist"

\* the tally that also counts the over-fetched records as a category
count_entry_with_overfetch(oc, read) ==
    LET counter2 ==
            IF read.kind /= "Counted" THEN oc.counter
            ELSE IF oc.kind = "PerRegion"
                 THEN add_reverse(add_correct(oc.counter, read.info.hits.correct), read.info.hits.reverse)
                 ELSE add_cells(oc.counter, read.info.hits.correct, read.info.barcode.v)
        stat2 == Put(oc.stat_counter, count_as(read), Get(oc.stat_counter, count_as(read), 0) + 1)
    IN IF read.kind = "Counted" /\ oc.kind = "SingleCell" /\ read.info.barcode.tag /= "Some"
       THEN Panic
       ELSE [oc EXCEPT !.counter = counter2, !.stat_counter = stat2]

count_entry(oc, read) ==
    LET counter2 ==
            IF read.kind /= "Counted" THEN oc.counter
            ELSE IF oc.kind = "PerRegion"
                 THEN add_reverse(add_correct(oc.counter, read.info.hits.correct), read.info.hits.reverse)
                 ELSE add_cells(oc.counter, read.info.hits.correct, read.info.barcode.v)
        stat2 == IF count_as(read) /= "overfetch"
                 THEN Put(oc.stat_counter, count_as(read), Get(oc.stat_counter, count_as(read), 0) + 1)
                 ELSE oc.stat_counter
    IN IF read.kind = "Counted" /\ oc.kind = "SingleCell" /\ read.info.barcode.tag /= "Some"
       THEN Panic
       ELSE [oc EXCEPT !.counter = counter2, !.stat_counter = stat2]

\* CounterPerChunk::count_reads
RECURSIVE CounterPerChunk_count_reads(_, _)
CounterPerChunk_count_reads(oc, annotated_reads) ==
    IF annotated_reads = <<>> \/ oc = Panic THEN oc
    ELSE CounterPerChunk_count_reads(count_entry(oc, Head(annotated_reads).read), Tail(annotated_reads))

RECURSIVE insert_annotated(_, _)
insert_annotated(idx_to_annotated, block) ==
    IF block = <<>> THEN idx_to_annotated
    ELSE insert_annotated(Put(idx_to_annotated, Head(block).org_index, Head(block).read), Tail(block))

\* Engine::capture_read_block on the task state
capture_read_block(t, read_block) ==
    LET oc1 == CounterPerChunk_count_reads(t.output_catcher, read_block.reads_forward)
        oc2 == CounterPerChunk_count_reads(oc1, read_block.reads_reverse)
        ann == IF t.idx_to_annotation_decision.tag = "Some"
               THEN Some(insert_annotated(insert_annotated(t.idx_to_annotation_decision.v,
                                                           read_block.reads_forward),
                                          read_block.reads_reverse))
               ELSE t.idx_to_annotation_decision
    IN IF oc2 = Panic THEN [t EXCEPT !.pc = "panic"]
       ELSE [t EXCEPT !.output_catcher = oc2, !.idx_to_annotation_decision = ann]

\* assert_eq!(info.corrected_position, done_pos) over both lists
positions_consistent(block, done_pos) ==
    \A l \in {block.reads_forward, block.reads_reverse} : \A k \in 1..Len(l) :
        l[k].read.kind = "Counted" => l[k].read.info.corrected_position = done_pos

\* for (done_pos, block) in done_positions.into_iter() { ... }, ascending keys;
\* final is the loop after the last record, which asserts and no longer
\* records the position
RECURSIVE capture_positions(_, _, _, _)
capture_positions(t, done_positions, keys, final) ==
    IF keys = {} \/ t.pc = "panic" THEN t
    ELSE LET done_pos == CHOOSE k \in keys : \A k2 \in keys : k <= k2
             t1 == IF final THEN t ELSE [t EXCEPT !.debug_processed_ids = @ \cup {done_pos}]
         IN IF \/ done_pos \in t.debug_processed_ids
               \/ (final /\ ~positions_consistent(done_positions[done_pos], done_pos))
            THEN [t EXCEPT !.pc = "panic"]
            ELSE capture_positions(capture_read_block(t1, done_positions[done_pos]),
                                   done_positions, keys \ {done_pos}, final)

\* the state of a chunk task right after bam.fetch
new_task(chunk, output_kind) ==
    [chunk |-> chunk,
     window |-> <<>>,                \* the records bam.read has returned so far
     bounds_ok |-> <<>>,             \* per record: did it pass the bounds check
     org_index |-> 0,
     current_pos |-> 0,
     last_read_pos |-> None,
     read_catcher |-> EmptyMap,
     debug_processed_ids |-> {},
     output_catcher |-> per_chunk(output_kind),
     idx_to_annotation_decision |-> IF cfg.write_output_bam THEN Some(EmptyMap) ELSE None,
     interner |-> <<>>,
     err |-> None,
     shard |-> None,                 \* the records written to the chunk's annotated shard
     pc |-> "read"]

\* the head of the loop in read_until_next_pos
must_return(t) == t.last_read_pos.tag = "Some" /\ t.last_read_pos.v > t.current_pos

\* variant of the loop body: nothing is split off the map
flush_never(t) == [t EXCEPT !.current_pos = t.last_read_pos.v, !.last_read_pos = None]

\* a flush of everything left of the position just read
flush_before_next_pos(t) ==
    LET next_pos == t.last_read_pos.v
        done_keys == {k \in DOMAIN t.read_catcher : k < next_pos}
        remaining == [k \in (DOMAIN t.read_catcher) \ done_keys |-> t.read_catcher[k]]
        t1 == capture_positions(t, t.read_catcher, done_keys, FALSE)
    IN IF t1.pc = "panic" THEN t1
       ELSE [t1 EXCEPT !.read_catcher = remaining,
                       !.current_pos = next_pos,
                       !.last_read_pos = None]

\* read_until_next_pos returned Some(next_pos): the body of the while loop
flush_done_positions(t) ==
    LET next_pos == t.last_read_pos.v
        split_key == t.current_pos - max_skip_len
        done_keys == {k \in DOMAIN t.read_catcher : k < split_key}
        remaining == [k \in (DOMAIN t.read_catcher) \ done_keys |-> t.read_catcher[k]]
        t1 == capture_positions(t, t.read_catcher, done_keys, FALSE)
    IN IF t1.pc = "panic" THEN t1
       ELSE [t1 EXCEPT !.read_catcher = remaining,
                       !.current_pos = next_pos,
                       !.last_read_pos = None]

\* res.push((annotated, *org_index)); *org_index += 1
push_read(t, corrected_position, is_reverse, annotated) ==
    LET bucket == t.read_catcher[corrected_position]
        e == [read |-> annotated, org_index |-> t.org_index]
        bucket2 == IF is_reverse
                   THEN [bucket EXCEPT !.reads_reverse = Append(@, e)]
                   ELSE [bucket EXCEPT !.reads_forward = Append(@, e)]
    IN [t EXCEPT !.read_catcher = Put(@, corrected_position, bucket2), !.org_index = @ + 1]

\* read_until_next_pos from the UMI extraction to the end of the loop body
annotate_read(t, read, corrected_position, barcode) ==
    LET bucket == t.read_catcher[corrected_position]
        res == IF read.rev THEN bucket.reads_reverse ELSE bucket.reads_forward
        umi == IF cfg.umi_extractor THEN read.umi ELSE None
        h == hits(t.chunk, read, t.interner)
        do_accept == accept_read(bucket.dedup_storage, read, Len(res), umi, barcode)
        info == [corrected_position |-> corrected_position,
                 reverse |-> read.rev,
                 hits |-> [correct |-> h.correct, reverse |-> h.reverse],
                 umi |-> umi,
                 barcode |-> barcode,
                 mapping_priority |-> MappingQuality(read)]
        t1 == [t EXCEPT !.interner = h.interner,
                        !.read_catcher = Put(@, corrected_position,
                                             [bucket EXCEPT !.dedup_storage = do_accept.storage])]
    IN IF cfg.umi_extractor /\ read.umi.tag = "Err"
       THEN [t EXCEPT !.pc = "err", !.err = Some(<<"umi extraction failed">>)]
       ELSE IF cfg.umi_extractor /\ read.umi.tag = "None"
       THEN push_read(t, corrected_position, read.rev, NoUMI)
       ELSE CASE do_accept.result = "Panic" -> [t EXCEPT !.pc = "panic"]
              [] do_accept.result = "Duplicated" ->
                    push_read(t1, corrected_position, read.rev, Duplicate)
              [] do_accept.result = "New" ->
                    push_read(t1, corrected_position, read.rev, Counted(info))
              [] do_accept.result = "DuplicateButPrefered" ->
                    \* res[idx_to_set_duplicate] indexes the list of this
                    \* record's orientation
                    IF do_accept.idx >= Len(res)
                    THEN [t EXCEPT !.pc = "panic", !.err = Some(<<"index out of bounds">>)]
                    ELSE LET old == res[do_accept.idx + 1]
                             res2 == [res EXCEPT ![do_accept.idx + 1] =
                                         [read |-> Duplicate, org_index |-> old.org_index]]
                             out2 == IF read.rev
                                     THEN [t1.read_catcher[corrected_position] EXCEPT !.reads_reverse = res2]
                                     ELSE [t1.read_catcher[corrected_position] EXCEPT !.reads_forward = res2]
                         IN push_read([t1 EXCEPT !.read_catcher = Put(@, corrected_position, out2)],
                                      corrected_position, read.rev, Counted(info))

\* NInUmi::remove_read_after_annotation, the only method NInUmi implements
NInUmi_remove_read_after_annotation(action, umi) ==
    IF umi.tag = "Some"
    THEN IF action = "Keep" THEN ~(\E k \in 1..Len(umi.v) : umi.v[k] = "N")
         ELSE \E k \in 1..Len(umi.v) : umi.v[k] = "N"
    ELSE FALSE

\* ReadFilter::remove_read of an NInUmi filter: the default of the trait
NInUmi_remove_read(read) == FALSE

\* the loop `for f in self.filters.iter() { if f.remove_read(read) {..} }`;
\* read.filt stands for the filters other than NInUmi
any_remove_read(read) == read.filt \/ (cfg.n_in_umi.tag = "Some" /\ NInUmi_remove_read(read))

\* panic!("Your reads have skipped regions > max_skip_len ({skip}>{max_skip_len}). ..")
skip_panic_message(skip, msl) ==
    <<"Your reads have skipped regions > max_skip_len (">> \o digits(skip) \o <<">">>
        \o digits(msl) \o <<"). Increase the setting via input.max_skip_length. Or filter the reads?">>

\* the message of the panic read.corrected_pos(max_skip_len).expect(..) ends in
positions_panic_message(read) ==
    IF read.pos < 0 THEN <<"unaligned read found?">> ELSE skip_panic_message(read.clip, max_skip_len)

\* one pass of the loop of read_until_next_pos for the record bam.read
\* returned: the set of possible task states afterwards
read_record(t0, read) ==
    LET pp == positions(read, t0.chunk)
        corrected_position == pp.v[1]
        position_for_bounds_check == pp.v[2]
        inside == ~not_in_region(t0.chunk, position_for_bounds_check)
        t == [t0 EXCEPT !.window = Append(@, read),
                        !.bounds_ok = Append(@, pp.tag = "Some" /\ inside),
                        !.last_read_pos = Some(read.pos),
                        !.read_catcher = IF pp.tag /= "Some" \/ corrected_position \in DOMAIN @
                                         THEN @ ELSE Put(@, corrected_position, new_PerPosition)]
    IN IF pp.tag /= "Some"
       THEN {[t0 EXCEPT !.window = Append(@, read), !.pc = "panic",
                        !.err = Some(positions_panic_message(read))]}
       ELSE IF ~inside THEN {push_read(t, corrected_position, read.rev, NotInRegion)}
       ELSE IF any_remove_read(read)
            THEN {push_read(t, corrected_position, read.rev, Filtered)}
       ELSE IF ~cfg.cell_barcode THEN {annotate_read(t, read, corrected_position, None)}
       ELSE IF read.bc.tag = "Err"
            THEN {[t EXCEPT !.pc = "err", !.err = Some(<<"barcode extraction failed">>)]}
       ELSE IF read.bc.tag = "None" THEN {push_read(t, corrected_position, read.rev, NoBarcode)}
       ELSE {IF corrected_barcode.tag = "Some"
             THEN annotate_read(t, read, corrected_position, corrected_barcode)
             ELSE IF corrected_barcode.tag = "None"
                  THEN push_read(t, corrected_position, read.rev, BarcodeNotInWhitelist(read.bc.v))
                  ELSE [t EXCEPT !.pc = "panic"]
             : corrected_barcode \in correct(read.bc.v)}

\* bam.read returned None: the loop over the remaining blocks
capture_remaining(t) ==
    LET t1 == capture_positions(t, t.read_catcher, DOMAIN t.read_catcher, TRUE)
    IN IF t1.pc = "panic" THEN t1
       ELSE [t1 EXCEPT !.read_catcher = EmptyMap, !.pc = "counted"]

\* a set of tokens in ascending order: .iter().sorted()
RECURSIVE ascending(_)
ascending(S) ==
    IF S = {} THEN <<>>
    ELSE <<CHOOSE x \in S : \A y \in S : x <= y>>
            \o ascending(S \ {CHOOSE x \in S : \A y \in S : x <= y})

\* the tag string of a hit list: the resolved names, in token order, with commas
RECURSIVE gene_tag(_, _)
gene_tag(interner, tokens) ==
    IF tokens = <<>> THEN <<>>
    ELSE IF Len(tokens) = 1 THEN <<resolve(interner, tokens[1])>>
    ELSE <<resolve(interner, tokens[1]), ",">> \o gene_tag(interner, Tail(tokens))

\* the tags of a Counted read: XQ, XR, XP and, with a barcode, CB
counted_aux(info, interner) ==
    LET aux == [XQ |-> gene_tag(interner, ascending({info.hits.correct[k] :
                                                        k \in 1..Len(info.hits.correct)})),
                XR |-> gene_tag(interner, ascending({info.hits.reverse[k] :
                                                        k \in 1..Len(info.hits.reverse)})),
                XP |-> info.corrected_position + 1]
    IN IF info.barcode.tag = "Some" THEN Put(aux, "CB", info.barcode.v) ELSE aux

\* the replace_aux calls of the match on the AnnotatedRead
aux_of(anno_read, interner) ==
    CASE anno_read.kind = "Filtered" -> [XF |-> 1]
      [] anno_read.kind = "Duplicate" -> [XF |-> 3]
      [] anno_read.kind = "BarcodeNotInWhitelist" -> [XF |-> 4, CR |-> anno_read.raw]
      [] anno_read.kind = "NoBarcode" -> [XF |-> 5]
      [] anno_read.kind = "NoUMI" -> [XF |-> 6]
      [] anno_read.kind = "Counted" -> counted_aux(anno_read.info, interner)

\* the loop of write_annotated_reads over the re-fetched window; n is the
\* place of the record in the window, ii the counter of the code, which the
\* `continue` of NotInRegion leaves as it is
RECURSIVE write_loop(_, _, _, _, _, _)
write_loop(records, n, ii, idx_to_annotated, interner, out) ==
    IF n > Len(records) THEN out
    ELSE IF ii \in DOMAIN idx_to_annotated
         THEN IF idx_to_annotated[ii].kind = "NotInRegion"
              THEN write_loop(records, n + 1, ii, idx_to_annotated, interner, out)
              ELSE write_loop(records, n + 1, ii + 1, idx_to_annotated, interner,
                              Append(out, [n |-> n, read |-> records[n],
                                           aux |-> aux_of(idx_to_annotated[ii], interner)]))
    ELSE write_loop(records, n + 1, ii + 1, idx_to_annotated, interner, out)

\* Engine::write_annotated_reads: the records of the chunk's shard
write_annotated_reads(records, idx_to_annotated, interner) ==
    write_loop(records, 1, 0, idx_to_annotated, interner, <<>>)

----------------------------------------------------------------------------
(* One chunk task, record by record                                         *)

MaxReads == 3

\* mapq values and NH values of the records
LowMapq == 10

HighMapq == 20

Read(tid, pos, clip, len, rev) ==
    [tid |-> tid, pos |-> pos, clip |-> clip, len |-> len, gap |-> 0, len2 |-> 0, rev |-> rev,
     filt |-> FALSE,
     bc |-> Some(<<"A", "A">>), umi |-> Some(<<"X">>), nh |-> 1, mapq |-> LowMapq]

\* the default configuration; the others differ from it in a few fields
BaseCfg ==
    [matcher |-> "TreeMatcher", direction |-> "Forward", overlap |-> "Union",
     multi_region |-> "CountBoth", dedup_mode |-> "NoDedup", bucket |-> "PerPosition",
     max_skip_length |-> 1, correct_reads_for_clipping |-> FALSE,
     cell_barcode |-> FALSE, umi_extractor |-> FALSE, output |-> "PerRegion",
     sorted_keys |-> None, reference_filter |-> None, n_in_umi |-> None,
     write_output_bam |-> TRUE]

WorkerCfgs ==
    {BaseCfg,
     [BaseCfg EXCEPT !.correct_reads_for_clipping = TRUE],
     [BaseCfg EXCEPT !.correct_reads_for_clipping = TRUE, !.overlap = "IntersectionStrict",
                     !.multi_region = "Drop"],
     [BaseCfg EXCEPT !.matcher = "ReferenceMatcher", !.direction = "Reverse"],
     [BaseCfg EXCEPT !.correct_reads_for_clipping = TRUE, !.dedup_mode = "Umi",
                     !.umi_extractor = TRUE],
     [BaseCfg EXCEPT !.correct_reads_for_clipping = TRUE, !.dedup_mode = "Umi",
                     !.umi_extractor = TRUE, !.bucket = "PerReference"],
     [BaseCfg EXCEPT !.dedup_mode = "SingleCell", !.umi_extractor = TRUE, !.cell_barcode = TRUE,
                     !.output = "SingleCell"],
     [BaseCfg EXCEPT !.correct_reads_for_clipping = TRUE, !.cell_barcode = TRUE,
                     !.umi_extractor = TRUE],
     [BaseCfg EXCEPT !.dedup_mode = "Umi", !.umi_extractor = TRUE, !.n_in_umi = Some("Remove")]}

\* the annotation of the single reference of the worker runs; no region
\* crosses position 3
WorkerTree ==
    {[start |-> 1, end |-> 3, gene |-> "g1", strand |-> "Forward"],
     [start |-> 2, end |-> 3, gene |-> "g2", strand |-> "Reverse"],
     [start |-> 4, end |-> 6, gene |-> "g3", strand |-> "Forward"]}

WorkerChunks == {Chunk(RefNames[1], 0, 0, 3), Chunk(RefNames[1], 0, 3, 6)}

\* records that differ in where they lie relative to the chunk
GeometryPool(chunk) ==
    LET geo == {<<chunk.start - 1, 0, 2>>, <<chunk.start, 0, 1>>, <<chunk.start, 1, 1>>,
                <<chunk.start + 1, 0, 1>>, <<chunk.start + 1, 1, 2>>, <<chunk.start + 1, 2, 1>>,
                <<chunk.stop, 1, 1>>, <<chunk.stop, 0, 1>>}
    IN {Read(chunk.tid, g[1], g[2], g[3], FALSE) : g \in {g \in geo : g[1] >= 0}}
       \cup {[Read(chunk.tid, g[1], g[2], g[3], TRUE) EXCEPT !.mapq = HighMapq] :
                g \in {g \in geo : g[1] >= 0}}

\* records at one place that differ in what the filters, the extractors and
\* the deduplication see, and one record left of the chunk
PayloadPool(chunk) ==
    LET base(rev) == Read(chunk.tid, chunk.start + 1, 0, 1, rev)
    IN {base(FALSE), base(TRUE),
        [base(FALSE) EXCEPT !.mapq = HighMapq], [base(TRUE) EXCEPT !.mapq = HighMapq],
        [base(FALSE) EXCEPT !.umi = Some(<<"Y">>)],
        [base(FALSE) EXCEPT !.nh = 2],
        [base(FALSE) EXCEPT !.filt = TRUE],
        [base(FALSE) EXCEPT !.bc = None],
        [base(FALSE) EXCEPT !.bc = Err],
        [base(FALSE) EXCEPT !.bc = Some(<<"A", "T">>)],
        [base(TRUE) EXCEPT !.bc = Some(<<"T", "T">>)],
        [base(FALSE) EXCEPT !.umi = None],
        [base(FALSE) EXCEPT !.umi = Err]}
       \cup (IF chunk.start > 0 THEN {Read(chunk.tid, chunk.start - 1, 0, 2, FALSE)} ELSE {})

\* longer windows of records that follow each other closely, with and
\* without a leading soft clip
MaxStreamReads == 4

StreamPool(chunk) ==
    {Read(chunk.tid, chunk.start + g[1], g[2], 1, FALSE) :
        g \in {<<0, 1>>, <<1, 0>>, <<1, 1>>, <<2, 0>>, <<2, 1>>}}

\* records that fail at more than one step of the classification, inside
\* and outside the chunk, and two records that fail at none
PrecedencePool(chunk) ==
    LET at(pos) == Read(chunk.tid, pos, 0, 1, FALSE)
        fails == {[at(chunk.start + 1) EXCEPT !.filt = TRUE, !.bc = None, !.umi = None],
                  [at(chunk.start + 1) EXCEPT !.filt = TRUE, !.bc = Err, !.umi = Err],
                  [at(chunk.start + 1) EXCEPT !.bc = None, !.umi = None],
                  [at(chunk.start + 1) EXCEPT !.bc = Some(<<"T", "T">>), !.umi = None],
                  [at(chunk.stop) EXCEPT !.filt = TRUE, !.bc = None, !.umi = None],
                  [at(chunk.stop) EXCEPT !.bc = Err, !.umi = Err]}
    IN fails \cup {at(chunk.start + 1), [Read(chunk.tid, chunk.start + 1, 0, 1, TRUE) EXCEPT !.mapq = HighMapq]}
             \cup (IF chunk.start > 0
                   THEN {[at(chunk.start - 1) EXCEPT !.filt = TRUE, !.bc = Err, !.umi = None]}
                   ELSE {})

\* records at one place whose UMI does and does not hold the byte N
NInUmiPool(chunk) ==
    LET base(rev) == Read(chunk.tid, chunk.start + 1, 0, 1, rev)
    IN {base(FALSE),
        [base(FALSE) EXCEPT !.umi = Some(<<"N">>)],
        [base(FALSE) EXCEPT !.umi = Some(<<"N">>), !.mapq = HighMapq],
        [base(FALSE) EXCEPT !.umi = Some(<<"X", "N">>)]}

\* records at the right boundary of the chunk: one whose block begins at
\* chunk.stop behind a soft clip, one whose block crosses chunk.stop
BoundaryPool(chunk) ==
    {Read(chunk.tid, chunk.stop, 1, 2, FALSE),
     Read(chunk.tid, chunk.stop - 1, 0, 3, FALSE),
     Read(chunk.tid, chunk.start + 1, 0, 1, FALSE)}

\* the longest window drawn from a pool
window_limit(pool, chunk) == IF pool = StreamPool(chunk) THEN MaxStreamReads ELSE MaxReads

InitWorker ==
    /\ cfg \in WorkerCfgs
    /\ targets = <<[name |-> RefNames[1], len |-> 6]>>
    /\ trees = [x \in {RefNames[1]} |-> WorkerTree]
    /\ bam = <<>>
    /\ whitelists = <<{<<"A", "A">>}>>
    /\ max_hamming = 1
    /\ \E chunk \in WorkerChunks : w = new_task(chunk, cfg.output)

\* bam.read returns the next record of the fetched window
WReadRecord ==
    /\ w.pc = "read"
    /\ ~must_return(w)
    /\ \E pool \in {GeometryPool(w.chunk), PayloadPool(w.chunk), StreamPool(w.chunk),
                    PrecedencePool(w.chunk), NInUmiPool(w.chunk), BoundaryPool(w.chunk)} :
       \E read \in pool :
          /\ Len(w.window) < window_limit(pool, w.chunk)
          /\ \A k \in 1..Len(w.window) : w.window[k] \in pool
          /\ in_fetch_window(w.chunk, read)
          /\ Len(w.window) > 0 => w.window[Len(w.window)].pos <= read.pos
          /\ w' \in read_record(w, read)
    /\ UNCHANGED <<mil_vars, bc_cfg_vars, match_vars, bc_vars, in_vars, cb_vars, gtf_vars, cg_vars, cfg, eng_vars>>

\* read_until_next_pos returns Some(next_pos) and the loop body flushes
WReturnNextPos ==
    /\ w.pc = "read"
    /\ must_return(w)
    /\ w' = flush_done_positions(w)
    /\ UNCHANGED <<mil_vars, bc_cfg_vars, match_vars, bc_vars, in_vars, cb_vars, gtf_vars, cg_vars, cfg, eng_vars>>

\* bam.read returns None and the remaining blocks are captured
WEndOfWindow ==
    /\ w.pc = "read"
    /\ ~must_return(w)
    /\ w' = capture_remaining(w)
    /\ UNCHANGED <<mil_vars, bc_cfg_vars, match_vars, bc_vars, in_vars, cb_vars, gtf_vars, cg_vars, cfg, eng_vars>>

\* Self::write_annotated_reads(&mut bam, &chunk, idx_to_annotation_decision.take().unwrap(), ..)
WWriteAnnotatedReads ==
    /\ w.pc = "counted"
    /\ w.idx_to_annotation_decision.tag = "Some"
    /\ w' = [w EXCEPT !.shard = Some(write_annotated_reads(w.window, w.idx_to_annotation_decision.v,
                                                          w.interner)),
                      !.pc = "written"]
    /\ UNCHANGED <<mil_vars, bc_cfg_vars, match_vars, bc_vars, in_vars, cb_vars, gtf_vars, cg_vars, cfg, eng_vars>>

IdleWorker ==
    /\ cfg = BaseCfg
    /\ w = [pc |-> "idle"]

IdleTask == w = [pc |-> "idle"]

IdleMatcher ==
    /\ m_chunk = Unset
    /\ m_read = Unset
    /\ m_hits = Unset

IdleEngine ==
    /\ tasks = <<>>
    /\ output = Unset
    /\ result = Unset
    /\ output_lock = None

\* C2: when a chunk task has tallied its window, the sum of its statistics
\* categories equals the number of alignments it read minus the number its
\* bounds check classified NotInRegion (each alignment incremented exactly
\* one category, the NotInRegion ones none).
C2_CountConservation ==
    w.pc = "counted" =>
        SumMap(w.output_catcher.stat_counter)
            = Len(w.window) - Cardinality({k \in 1..Len(w.window) : ~w.bounds_ok[k]})

\* the record reached the deduplication step of read_until_next_pos
reaches_dedup(t, k) ==
    LET read == t.window[k]
    IN /\ t.bounds_ok[k]
       /\ ~read.filt
       /\ cfg.cell_barcode =>
             (read.bc.tag = "Some" /\ \A r \in correct(read.bc.v) : r.tag = "Some")
       /\ cfg.umi_extractor => read.umi.tag = "Some"

\* the identity key and the bucket of a record that reached deduplication
identity_key(t, k) ==
    IF cfg.dedup_mode = "Umi" THEN <<t.window[k].umi.v>>
    ELSE <<t.window[k].umi.v, (CHOOSE r \in correct(t.window[k].bc.v) : TRUE).v>>

bucket_of(t, k) == positions(t.window[k], t.chunk).v[1]

candidates(t, k) ==
    {j \in 1..Len(t.window) :
        /\ reaches_dedup(t, j)
        /\ bucket_of(t, j) = bucket_of(t, k)
        /\ identity_key(t, j) = identity_key(t, k)}

\* maximal mapping priority, the first to arrive among equals
is_winner(t, k) ==
    \A j \in candidates(t, k) :
        /\ ~mq_gt(MappingQuality(t.window[j]), MappingQuality(t.window[k]))
        /\ MappingQuality(t.window[j]) = MappingQuality(t.window[k]) => k <= j

\* C4: in a finished chunk task with deduplication, among the records of one
\* bucket and one identity key that reached deduplication, the record of
\* maximal mapping priority (the first to arrive among equals) is Counted and
\* every other one is Duplicate.
C4_DedupContestMonotone ==
    (w.pc = "counted" /\ cfg.dedup_mode /= "NoDedup") =>
        \A k \in 1..Len(w.window) :
            reaches_dedup(w, k) =>
                w.idx_to_annotation_decision.v[k - 1].kind
                    = IF is_winner(w, k) THEN "Counted" ELSE "Duplicate"

----------------------------------------------------------------------------
(* The shared Output (src/engine.rs)                                        *)

\* byte order of the characters and names that occur (names of one length)
SortedTokens ==
    <<"0", "1", "2", "3", "4", "5", "6", "7", "8", "9", ":", "A", "T", "_",
      "chr1", "chr2", "g1", "g2", "g3", "g4">>

Rank(x) == CHOOSE i \in 1..Len(SortedTokens) : SortedTokens[i] = x

\* Ord for Vec<u8> / String, on sequences of tokens
RECURSIVE lex_less(_, _)
lex_less(a, b) ==
    IF b = <<>> THEN FALSE
    ELSE IF a = <<>> THEN TRUE
    ELSE IF Head(a) = Head(b) THEN lex_less(Tail(a), Tail(b))
    ELSE Rank(Head(a)) < Rank(Head(b))

\* sort() of a set of names
RECURSIVE sorted_names(_)
sorted_names(S) ==
    IF S = {} THEN <<>>
    ELSE LET m == CHOOSE x \in S : \A y \in S : Rank(x) <= Rank(y)
         IN <<m>> \o sorted_names(S \ {m})

\* sort() of a set of byte strings
RECURSIVE sorted_bytes(_)
sorted_bytes(S) ==
    IF S = {} THEN <<>>
    ELSE LET m == CHOOSE x \in S : \A y \in S : ~lex_less(y, x)
         IN <<m>> \o sorted_bytes(S \ {m})

StatCategories ==
    {"ambiguous", "correct", "reverse", "outside", "duplicate", "no_barcode", "no_umi",
     "barcode_not_in_whitelist", "filtered"}

\* Output::new_per_region
new_per_region(sorted_keys) ==
    [kind |-> "PerRegion", counter |-> EmptyMap, stat_counter |-> [c \in StatCategories |-> 0],
     sorted_keys |-> sorted_keys]

\* for key in sorted_keys { features.insert(key.clone(), features.len()) }
RECURSIVE preinsert_features(_, _)
preinsert_features(features, keys) ==
    IF keys = <<>> THEN features
    ELSE preinsert_features(Put(features, Head(keys), Cardinality(DOMAIN features)), Tail(keys))

\* Output::new_singlecell
new_singlecell(sorted_keys) ==
    [kind |-> "SingleCell", stat_counter |-> [c \in StatCategories |-> 0],
     features |-> IF sorted_keys.tag = "Some" THEN preinsert_features(EmptyMap, sorted_keys.v)
                  ELSE EmptyMap,
     barcodes |-> {}, entry_count |-> 0,
     matrix_temp_dir |-> EmptyMap]         \* file name -> lines

\* for (k, v) in incoming_stat_counter { *stat_counter.entry(k).or_default() += v }
RECURSIVE add_stats(_, _, _)
add_stats(stat_counter, incoming, keys) ==
    IF keys = <<>> THEN stat_counter
    ELSE add_stats(Put(stat_counter, Head(keys), Get(stat_counter, Head(keys), 0) + incoming[Head(keys)]),
                   incoming, Tail(keys))

\* a += b on usize where the build does not check for overflow
wrapping_add(a, b) == (a + b) % (usize_MAX + 1)

\* entry.0 = v.0 in place of entry.0 += v.0
RECURSIVE add_regions_overwriting(_, _, _, _)
add_regions_overwriting(counter, incoming, interner, keys) ==
    IF keys = <<>> THEN counter
    ELSE add_regions_overwriting(Put(counter, resolve(interner, Head(keys)), incoming[Head(keys)]),
                                 incoming, interner, Tail(keys))

\* for (k, v) in incoming_counter.iter() { entry.0 += v.0; entry.1 += v.1 }
RECURSIVE add_regions(_, _, _, _)
add_regions(counter, incoming, interner, keys) ==
    IF keys = <<>> THEN counter
    ELSE LET name == resolve(interner, Head(keys))
             entry == Get(counter, name, <<0, 0>>)
             v == incoming[Head(keys)]
         IN add_regions(Put(counter, name, <<wrapping_add(entry[1], v[1]),
                                             wrapping_add(entry[2], v[2])>>),
                        incoming, interner, Tail(keys))

\* some entry.0 += v.0 or entry.1 += v.1 of the merge exceeds usize::MAX
regions_overflow(counter, incoming, interner) ==
    \E k \in DOMAIN incoming :
        \E c \in 1..2 : Get(counter, resolve(interner, k), <<0, 0>>)[c] + incoming[k][c] > usize_MAX

\* the temporary file written with the 0-based feature index
RECURSIVE add_cells_to_output_zero_based(_, _, _, _, _)
add_cells_to_output_zero_based(out, incoming, interner, keys, lines) ==
    IF keys = <<>> THEN [out |-> out, lines |-> lines]
    ELSE LET feature_str == resolve(interner, Head(keys)[1])
             barcode == Head(keys)[2]
             feature_idx == Get(out.features, feature_str, Cardinality(DOMAIN out.features))
             out2 == [out EXCEPT !.features = Put(@, feature_str, feature_idx),
                                 !.barcodes = @ \cup {barcode},
                                 !.entry_count = @ + 1]
         IN add_cells_to_output_zero_based(out2, incoming, interner, Tail(keys),
                                Append(lines, <<feature_idx, barcode, incoming[Head(keys)]>>))

\* for ((feature_ref, barcode), value) in incoming_counter.into_iter() { ... }
\* for one iteration order of the map; lines collects the temporary file
RECURSIVE add_cells_to_output(_, _, _, _, _)
add_cells_to_output(out, incoming, interner, keys, lines) ==
    IF keys = <<>> THEN [out |-> out, lines |-> lines]
    ELSE LET feature_str == resolve(interner, Head(keys)[1])
             barcode == Head(keys)[2]
             feature_idx == Get(out.features, feature_str, Cardinality(DOMAIN out.features))
             out2 == [out EXCEPT !.features = Put(@, feature_str, feature_idx),
                                 !.barcodes = @ \cup {barcode},
                                 !.entry_count = @ + 1]
         IN add_cells_to_output(out2, incoming, interner, Tail(keys),
                                Append(lines, <<feature_idx + 1, barcode, incoming[Head(keys)]>>))

\* Output::count_reads: the possible values of the Output afterwards (the
\* incoming HashMap is iterated in an arbitrary order; an addition past
\* usize::MAX wraps or panics, as the build decides)
Output_count_reads(out, chunk, interner, output_catcher) ==
    IF out.kind = "PerRegion"
    THEN {[out EXCEPT !.counter = add_regions(@, output_catcher.counter, interner,
                                              SetToSeq(DOMAIN output_catcher.counter)),
                      !.stat_counter = add_stats(@, output_catcher.stat_counter,
                                                 SetToSeq(DOMAIN output_catcher.stat_counter))]}
         \cup (IF regions_overflow(out.counter, output_catcher.counter, interner)
               THEN {Panic}        \* a build with overflow checks
               ELSE {})
    ELSE LET out1 == [out EXCEPT !.stat_counter = add_stats(@, output_catcher.stat_counter,
                                                    SetToSeq(DOMAIN output_catcher.stat_counter))]
         IN {LET r == add_cells_to_output(out1, output_catcher.counter, interner, keys, <<>>)
             IN [r.out EXCEPT !.matrix_temp_dir = Put(@, str_id(chunk), r.lines)]
             : keys \in Orders(DOMAIN output_catcher.counter)}

\* the lines of the temporary files, in the order of the sorted chunk names
RECURSIVE concat_temp_files(_, _)
concat_temp_files(matrix_temp_dir, names) ==
    IF names = <<>> THEN <<>>
    ELSE matrix_temp_dir[Head(names)] \o concat_temp_files(matrix_temp_dir, Tail(names))

\* Output::finish: the files written
Output_finish(out, chunk_names) ==
    IF out.kind = "PerRegion"
    THEN LET keys == IF out.sorted_keys.tag = "Some" THEN out.sorted_keys.v
                     ELSE sorted_names(DOMAIN out.counter)
         IN [counts_tsv |-> [k \in 1..Len(keys) |->
                                <<keys[k], Get(out.counter, keys[k], <<0, 0>>)[1],
                                  Get(out.counter, keys[k], <<0, 0>>)[2]>>],
             stats_tsv |-> out.stat_counter]
    ELSE LET feature_len == Cardinality(DOMAIN out.features)
             \* temp.sort() of the (index, feature) pairs
             features_tsv == [k \in 1..feature_len |->
                                CHOOSE f \in DOMAIN out.features :
                                    Cardinality({g \in DOMAIN out.features :
                                        \/ out.features[g] < out.features[f]
                                        \/ (out.features[g] = out.features[f] /\ Rank(g) < Rank(f))}) = k - 1]
             barcodes == sorted_bytes(out.barcodes)
             barcode_to_index == [b \in out.barcodes |-> CHOOSE k \in 1..Len(barcodes) : barcodes[k] = b]
             all_lines == concat_temp_files(out.matrix_temp_dir,
                                            sorted_bytes({chunk_names[k] : k \in 1..Len(chunk_names)}))
             kept == SelectSeq(all_lines, LAMBDA l : l[2] \in out.barcodes)
         IN [features_tsv |-> features_tsv,
             barcodes_tsv |-> barcodes,
             matrix_header |-> <<feature_len, Cardinality(out.barcodes), out.entry_count>>,
             matrix_entries |-> [k \in 1..Len(kept) |->
                                    <<kept[k][1], barcode_to_index[kept[k][2]], kept[k][3]>>],
             stats_tsv |-> out.stat_counter]

----------------------------------------------------------------------------
(* Engine::quantify_bam (src/engine.rs)                                     *)

MaxBamReads == 3

\* ReferenceMatcher::generate_chunks: one chunk per included reference
ReferenceMatcher_generate_chunks ==
    [k \in 1..Len(targets) |-> Chunk(targets[k].name, k - 1, 0, targets[k].len)]

\* a chunk list left as generated
retain_all(cs) == cs

\* chunks.retain(..) for a Reference filter
retain_chunks(cs) ==
    IF cfg.reference_filter.tag /= "Some" THEN cs
    ELSE IF cfg.reference_filter.v.action = "Keep"
         THEN SelectSeq(cs, LAMBDA c : c.chr \in cfg.reference_filter.v.references)
         ELSE SelectSeq(cs, LAMBDA c : c.chr \notin cfg.reference_filter.v.references)

\* the indices of the records bam.fetch hands to the task of a chunk
fetch_idx(chunk) ==
    SelectSeq([k \in 1..Len(bam) |-> k], LAMBDA k : in_fetch_window(chunk, bam[k]))

fetch(chunk) == [k \in 1..Len(fetch_idx(chunk)) |-> bam[fetch_idx(chunk)[k]]]

\* the loop `while let Some(next_pos) = read_until_next_pos(..)? { .. }` and
\* the capture of the remaining blocks: the possible states of the task when
\* it reaches the merge, returns an error or panics
RECURSIVE run_task(_, _)
run_task(t, records) ==
    IF t.pc /= "read" THEN {t}
    ELSE IF must_return(t) THEN run_task(flush_done_positions(t), records)
    ELSE IF records = <<>> THEN {capture_remaining(t)}
    ELSE UNION {run_task(t2, Tail(records)) : t2 \in read_record(t, Head(records))}

\* generate_chunks of the ReferenceMatcher
GenerateChunksReference ==
    /\ cg_pc = "generate"
    /\ chunks' = ReferenceMatcher_generate_chunks
    /\ cg_pc' = "collected"
    /\ UNCHANGED <<chromosomes, it, last_start, last_chr, last_tid, last_chr_length, stop,
                   mil_vars, bc_cfg_vars, match_vars, bc_vars, in_vars, cb_vars, gtf_vars, cfg, w_vars, eng_vars>>

\* quantify_bam from the check of the chunk list to pool.install
StartPool ==
    /\ cg_pc = "collected"
    /\ result = Unset
    /\ IF chunks = <<>>
       THEN /\ result' = [tag |-> "Err", from |-> "chunks", errors |-> <<"No chunks generated">>]
            /\ UNCHANGED <<chunks, tasks>>
       ELSE /\ chunks' = retain_chunks(chunks)
            /\ tasks' = [k \in 1..Len(retain_chunks(chunks)) |-> [pc |-> "todo"]]
            /\ result' = [tag |-> "Running"]
    /\ UNCHANGED <<chromosomes, it, last_start, last_chr, last_tid, last_chr_length, stop, cg_pc,
                   mil_vars, bc_cfg_vars, match_vars, bc_vars, in_vars, cb_vars, gtf_vars, cfg, w_vars, output, output_lock>>

\* a guard that lives to the end of the closure instead of the statement
guard_kept(holder) == Some(holder)

\* the temporary MutexGuard is dropped at the end of the statement that took
\* it: the mutex is free again
MutexGuard_drop(holder) == None

\* self.output.lock() at the head of the closure: the task waits until the
\* mutex is free and takes it
TaskLockForPerChunk ==
    /\ result = [tag |-> "Running"]
    /\ output_lock = None
    /\ \E i \in 1..Len(tasks) :
          /\ tasks[i].pc = "todo"
          /\ tasks' = [tasks EXCEPT ![i].pc = "per_chunk"]
          /\ output_lock' = Some(i)
    /\ UNCHANGED <<mil_vars, bc_cfg_vars, match_vars, bc_vars, in_vars, cb_vars, gtf_vars, cg_vars, cfg, w_vars, output, result>>

\* .per_chunk() under the guard, the end of that statement, and the locals
\* of the closure up to bam.fetch
TaskPerChunk ==
    /\ result = [tag |-> "Running"]
    /\ \E i \in 1..Len(tasks) :
          /\ tasks[i].pc = "per_chunk"
          /\ output_lock = Some(i)
          /\ tasks' = [tasks EXCEPT ![i] = new_task(chunks[i], output.kind)]
          /\ output_lock' = MutexGuard_drop(i)
    /\ UNCHANGED <<mil_vars, bc_cfg_vars, match_vars, bc_vars, in_vars, cb_vars, gtf_vars, cg_vars, cfg, w_vars, output, result>>

\* the closure of one chunk from bam.fetch up to the second self.output.lock()
TaskRun ==
    /\ result = [tag |-> "Running"]
    /\ \E i \in 1..Len(tasks) :
          /\ tasks[i].pc = "read"
          /\ \E t \in run_task(tasks[i], fetch(chunks[i])) :
                tasks' = [tasks EXCEPT ![i] = t]
    /\ UNCHANGED <<mil_vars, bc_cfg_vars, match_vars, bc_vars, in_vars, cb_vars, gtf_vars, cg_vars, cfg, w_vars, output, result, output_lock>>

\* self.output.lock() after the remaining blocks were captured: the task
\* waits until the mutex is free and takes it
TaskLockForCountReads ==
    /\ result = [tag |-> "Running"]
    /\ output_lock = None
    /\ \E i \in 1..Len(tasks) :
          /\ tasks[i].pc = "counted"
          /\ tasks' = [tasks EXCEPT ![i].pc = "merge"]
          /\ output_lock' = Some(i)
    /\ UNCHANGED <<mil_vars, bc_cfg_vars, match_vars, bc_vars, in_vars, cb_vars, gtf_vars, cg_vars, cfg, w_vars, output, result>>

\* a merge that leaves the per-region Output as it was
TaskMerge_dropped ==
    /\ result = [tag |-> "Running"]
    /\ \E i \in 1..Len(tasks) :
          /\ tasks[i].pc = "merge"
          /\ output_lock = Some(i)
          /\ IF output.kind = "PerRegion"
             THEN UNCHANGED output
             ELSE output' \in Output_count_reads(output, chunks[i], tasks[i].interner,
                                                  tasks[i].output_catcher)
          /\ tasks' = [tasks EXCEPT ![i].pc = "done"]
          /\ output_lock' = MutexGuard_drop(i)
    /\ UNCHANGED <<mil_vars, bc_cfg_vars, match_vars, bc_vars, in_vars, cb_vars, gtf_vars, cg_vars, cfg, w_vars, result>>

\* .count_reads(&chunk, &interner, output_catcher)? under the guard, the end
\* of that statement and the return of Ok(()) by the closure
TaskMerge ==
    /\ result = [tag |-> "Running"]
    /\ \E i \in 1..Len(tasks) :
          /\ tasks[i].pc = "merge"
          /\ output_lock = Some(i)
          /\ output' \in Output_count_reads(output, chunks[i], tasks[i].interner,
                                            tasks[i].output_catcher)
          /\ tasks' = [tasks EXCEPT ![i].pc = "done"]
          /\ output_lock' = MutexGuard_drop(i)
    /\ UNCHANGED <<mil_vars, bc_cfg_vars, match_vars, bc_vars, in_vars, cb_vars, gtf_vars, cg_vars, cfg, w_vars, result>>

\* the messages of the failed tasks, in chunk order
RECURSIVE collect_errors(_)
collect_errors(ts) ==
    IF ts = <<>> THEN <<>>
    ELSE (IF Head(ts).pc = "err" THEN <<Head(ts).err.v>> ELSE <<>>) \o collect_errors(Tail(ts))

\* returning as soon as one task has failed, without the others
ReturnResult_fail_fast ==
    /\ result = [tag |-> "Running"]
    /\ IF \E i \in 1..Len(tasks) : tasks[i].pc = "err"
       THEN result' = [tag |-> "Err", from |-> "tasks", errors |-> collect_errors(tasks)]
       ELSE /\ \A i \in 1..Len(tasks) : tasks[i].pc = "done"
            /\ result' = [tag |-> "Ok", from |-> "tasks",
                          files |-> Output_finish(output, [k \in 1..Len(chunks) |-> str_id(chunks[k])])]
    /\ UNCHANGED <<mil_vars, bc_cfg_vars, match_vars, bc_vars, in_vars, cb_vars, gtf_vars, cg_vars, cfg, w_vars, tasks, output, output_lock>>

\* pool.install returns the collected Vec<Result<()>>; the rest of quantify_bam
ReturnResult ==
    /\ result = [tag |-> "Running"]
    /\ IF \E i \in 1..Len(tasks) : tasks[i].pc = "panic"
       THEN result' = [tag |-> "Panic"]
       ELSE /\ \A i \in 1..Len(tasks) : tasks[i].pc \in {"done", "err"}
            /\ IF \E i \in 1..Len(tasks) : tasks[i].pc = "err"
               THEN result' = [tag |-> "Err", from |-> "tasks", errors |-> collect_errors(tasks)]
               ELSE result' = [tag |-> "Ok", from |-> "tasks",
                               files |-> Output_finish(output,
                                            [k \in 1..Len(chunks) |-> str_id(chunks[k])])]
    /\ UNCHANGED <<mil_vars, bc_cfg_vars, match_vars, bc_vars, in_vars, cb_vars, gtf_vars, cg_vars, cfg, w_vars, tasks, output, output_lock>>

\* the records the indexed file may hold, in file order
EnginePool ==
    <<[Read(0, 0, 1, 1, FALSE) EXCEPT !.bc = Some(<<"T", "T">>)],
      [Read(0, 1, 0, 1, FALSE) EXCEPT !.umi = Err],
      Read(0, 2, 0, 2, FALSE),
      Read(0, 3, 1, 1, TRUE),
      [Read(0, 4, 0, 1, FALSE) EXCEPT !.bc = Some(<<"T", "T">>)],
      Read(0, 5, 0, 1, FALSE),
      Read(1, 0, 0, 1, FALSE),
      [Read(1, 1, 0, 1, FALSE) EXCEPT !.umi = Err]>>

EngineTrees ==
    {[x \in {RefNames[1], RefNames[2]} |->
        IF x = RefNames[1]
        THEN {[start |-> 1, end |-> 3, gene |-> "g1", strand |-> "Forward"],
              [start |-> 4, end |-> 5, gene |-> "g1", strand |-> "Forward"],
              [start |-> 5, end |-> 6, gene |-> "g2", strand |-> "Reverse"]}
        ELSE {[start |-> 0, end |-> 2, gene |-> "g4", strand |-> "Forward"]}],
     [x \in {RefNames[1]} |->
        {[start |-> 2, end |-> 4, gene |-> "g1", strand |-> "Forward"],
         [start |-> 4, end |-> 6, gene |-> "g3", strand |-> "Unstranded"]}]}

EngineBaseCfg == [BaseCfg EXCEPT !.write_output_bam = FALSE]

EngineCfgs ==
    {EngineBaseCfg,
     [EngineBaseCfg EXCEPT !.correct_reads_for_clipping = TRUE],
     [EngineBaseCfg EXCEPT !.correct_reads_for_clipping = TRUE, !.umi_extractor = TRUE,
                           !.dedup_mode = "Umi", !.bucket = "PerReference"],
     [EngineBaseCfg EXCEPT !.matcher = "ReferenceMatcher", !.umi_extractor = TRUE],
     [EngineBaseCfg EXCEPT !.cell_barcode = TRUE, !.umi_extractor = TRUE,
                           !.dedup_mode = "SingleCell", !.output = "SingleCell"],
     [EngineBaseCfg EXCEPT !.cell_barcode = TRUE, !.output = "SingleCell",
                           !.sorted_keys = Some(<<"g1", "g2", "g3", "g4">>)],
     [EngineBaseCfg EXCEPT !.matcher = "ReferenceMatcher", !.cell_barcode = TRUE,
                           !.output = "SingleCell"],
     [EngineBaseCfg EXCEPT !.reference_filter =
                               Some([action |-> "Remove", references |-> {RefNames[2]}])],
     [EngineBaseCfg EXCEPT !.matcher = "ReferenceMatcher",
                           !.reference_filter =
                               Some([action |-> "Keep", references |-> {RefNames[2]}])],
     [EngineBaseCfg EXCEPT !.cell_barcode = TRUE, !.output = "SingleCell",
                           !.reference_filter =
                               Some([action |-> "Remove", references |-> {RefNames[1]}])]}

InitEngine ==
    /\ cfg \in EngineCfgs
    /\ targets = <<[name |-> RefNames[1], len |-> 6], [name |-> RefNames[2], len |-> 2]>>
    /\ IF cfg.matcher = "TreeMatcher" THEN trees \in EngineTrees ELSE trees = EmptyMap
    /\ \E S \in SubsetsUpTo(1..Len(EnginePool), MaxBamReads) :
          bam = SelectSeq(EnginePool, LAMBDA r : \E k \in S : EnginePool[k] = r)
    /\ whitelists = <<{<<"A", "A">>, <<"T", "T">>}>>
    /\ max_hamming = 0
    /\ IF cfg.matcher = "TreeMatcher"
       THEN ChunkedGenome_iter
       ELSE /\ chromosomes = <<>>
            /\ it = 0
            /\ last_start = 0
            /\ last_tid = 0
            /\ last_chr_length = 0
            /\ last_chr = ""
            /\ stop = 0
            /\ cg_pc = "generate"
            /\ chunks = <<>>
    /\ tasks = <<>>
    /\ output = IF cfg.output = "PerRegion" THEN new_per_region(cfg.sorted_keys)
                ELSE new_singlecell(cfg.sorted_keys)
    /\ result = Unset
    /\ output_lock = None

\* every task has read its whole window
all_windows_read ==
    /\ Len(tasks) > 0
    /\ \A i \in 1..Len(tasks) : tasks[i].pc \in {"counted", "merge", "done"}

\* the reference of the record has a chunk
on_chunked_reference(b) == \E i \in 1..Len(chunks) : chunks[i].tid = bam[b].tid

\* the tasks whose bounds check let record b of the file pass
accepted_by(b) ==
    {i \in 1..Len(tasks) :
        \E k \in 1..Len(fetch_idx(chunks[i])) :
            fetch_idx(chunks[i])[k] = b /\ tasks[i].bounds_ok[k]}

\* the tasks that were handed record b
fetched_by(b) ==
    {i \in 1..Len(tasks) : \E k \in 1..Len(fetch_idx(chunks[i])) : fetch_idx(chunks[i])[k] = b}

position_for_bounds_check(b, i) == positions(bam[b], chunks[i]).v[2]

\* the chunks whose [start, stop) contains the position for the bounds check
containing(b) ==
    {i \in 1..Len(chunks) :
        /\ chunks[i].tid = bam[b].tid
        /\ chunks[i].start <= position_for_bounds_check(b, i)
        /\ position_for_bounds_check(b, i) < chunks[i].stop}

\* C1 (as stated): for every record on a chunked reference exactly one chunk
\* has [start, stop) containing its position for the bounds check, and that
\* chunk's task is the only one that classifies it other than NotInRegion.
C1_ExactlyOneChunkContains ==
    all_windows_read =>
        \A b \in 1..Len(bam) :
            on_chunked_reference(b) =>
                /\ Cardinality(containing(b)) = 1
                /\ accepted_by(b) = containing(b)

\* C1 (amended): for every record on a chunked reference exactly one task
\* classifies it other than NotInRegion, never zero and never two: the task
\* of the chunk whose [start, stop) contains the position for the bounds
\* check when that position is not negative, and the task of the first chunk
\* of the reference (start 0) when clipping correction made it negative.
C1_ExactlyOneTaskAccepts ==
    all_windows_read =>
        \A b \in 1..Len(bam) :
            on_chunked_reference(b) =>
                /\ Cardinality(accepted_by(b)) = 1
                /\ \A i \in accepted_by(b) :
                      IF position_for_bounds_check(b, i) >= 0
                      THEN i \in containing(b)
                      ELSE chunks[i].start = 0

\* a record corrected to a negative position was accepted by the first chunk,
\* and a record handed to two tasks was accepted by one of them only
C1_Witness ==
    /\ all_windows_read
    /\ \E b \in 1..Len(bam) : \E i \in accepted_by(b) :
          position_for_bounds_check(b, i) < 0 /\ chunks[i].start = 0
    /\ \E b \in 1..Len(bam) : Cardinality(fetched_by(b)) = 2 /\ Cardinality(accepted_by(b)) = 1

RECURSIVE SumOf(_, _)
SumOf(f, S) ==
    IF S = {} THEN 0
    ELSE LET x == CHOOSE x \in S : TRUE IN f[x] + SumOf(f, S \ {x})

\* the tasks whose tallies have been merged
merged == {i \in 1..Len(tasks) : tasks[i].pc = "done"}

\* what a task tallied for a region name (1: correct, 2: reverse)
task_region_count(t, name, side) ==
    LET toks == {tok \in DOMAIN t.output_catcher.counter : resolve(t.interner, tok) = name}
    IN SumOf([tok \in toks |-> t.output_catcher.counter[tok][side]], toks)

RegionNames == {"chr1", "chr2", "g1", "g2", "g3", "g4"}

\* C5: whatever the order in which the chunk tasks reached the merge, the
\* shared Output holds, for every region, the sums of the (correct, reverse)
\* tallies of the merged chunks and, for every statistics category, the sum
\* of their tallies.
C5_AggregationOrderIndependent ==
    result /= Unset =>
        /\ output.kind = "PerRegion" =>
              /\ DOMAIN output.counter \subseteq RegionNames
              /\ \A name \in RegionNames :
                    Get(output.counter, name, <<0, 0>>)
                        = <<SumOf([i \in merged |-> task_region_count(tasks[i], name, 1)], merged),
                            SumOf([i \in merged |-> task_region_count(tasks[i], name, 2)], merged)>>
        /\ \A c \in StatCategories :
              output.stat_counter[c]
                  = SumOf([i \in merged |-> Get(tasks[i].output_catcher.stat_counter, c, 0)], merged)

\* a later chunk was merged before an earlier one, and both count the same
\* region
C5_Witness ==
    /\ output.kind = "PerRegion"
    /\ \E i, j \in 1..Len(tasks) :
          /\ i < j
          /\ tasks[i].pc = "counted"
          /\ tasks[j].pc = "done"
          /\ \E name \in RegionNames :
                /\ task_region_count(tasks[i], name, 1) > 0
                /\ task_region_count(tasks[j], name, 1) > 0
                /\ output.counter[name][1] = task_region_count(tasks[j], name, 1)

\* the Outputs after merging the tasks from = i.. in chunk order
RECURSIVE merge_in_chunk_order(_, _)
merge_in_chunk_order(outs, i) ==
    IF i > Len(tasks) THEN outs
    ELSE merge_in_chunk_order(
            UNION {Output_count_reads(o, chunks[i], tasks[i].interner, tasks[i].output_catcher) :
                      o \in outs},
            i + 1)

\* what the claim compares of the three files
matrix_files(files) ==
    [features_tsv |-> files.features_tsv,
     barcodes_tsv |-> files.barcodes_tsv,
     matrix_header |-> files.matrix_header,
     matrix_entries |-> {files.matrix_entries[k] : k \in 1..Len(files.matrix_entries)}]

\* C6: in single-cell mode the feature order of features.tsv, barcodes.tsv,
\* the matrix header and the set of matrix entries are the ones obtained when
\* the chunk tasks reach the merge in chunk order, whatever order they
\* actually reached it in.
C6_CrossChunkDeterminism ==
    (result /= Unset /\ result.tag = "Ok" /\ cfg.output = "SingleCell") =>
        matrix_files(result.files)
            \in {matrix_files(Output_finish(o, [k \in 1..Len(chunks) |-> str_id(chunks[k])])) :
                    o \in merge_in_chunk_order({new_singlecell(cfg.sorted_keys)}, 1)}

\* C7: when quantify_bam has returned from the pool, every chunk task has run
\* to its end (merged or failed); it returned an error exactly if some task
\* failed, and the error reports the failures of all failed chunks.
C7_ErrorPropagation ==
    (result /= Unset /\ result.tag \in {"Ok", "Err"} /\ result.from = "tasks") =>
        /\ \A i \in 1..Len(tasks) : tasks[i].pc \in {"done", "err"}
        /\ (result.tag = "Err") <=> (\E i \in 1..Len(tasks) : tasks[i].pc = "err")
        /\ result.tag = "Err" =>
              /\ Len(result.errors) = Cardinality({i \in 1..Len(tasks) : tasks[i].pc = "err"})
              /\ \A i \in 1..Len(tasks) :
                    tasks[i].pc = "err" =>
                        \E k \in 1..Len(result.errors) : result.errors[k] = tasks[i].err.v

\* two chunks failed, a third one was merged, and an error was returned
C7_Witness ==
    /\ result /= Unset
    /\ result.tag = "Err"
    /\ result.from = "tasks"
    /\ Len(result.errors) = 2
    /\ \E i \in 1..Len(tasks) : tasks[i].pc = "done"

\* the lines of the temporary matrix files in the order finish reads them
staged_lines ==
    concat_temp_files(output.matrix_temp_dir,
                      sorted_bytes({str_id(chunks[k]) : k \in 1..Len(chunks)}))

NineCategories ==
    {"correct", "reverse", "ambiguous", "outside", "filtered", "duplicate", "no_barcode",
     "no_umi", "barcode_not_in_whitelist"}

\* C14: the statistics mapping of the shared output holds exactly the nine
\* fixed categories before and after every chunk merge, so does the mapping
\* written at the end of a run, and no chunk tallies a category outside them.
C14_FixedStatCategories ==
    /\ output /= Unset => DOMAIN output.stat_counter = NineCategories
    /\ \A i \in 1..Len(tasks) :
          tasks[i].pc \in {"counted", "merge", "done"} =>
              DOMAIN tasks[i].output_catcher.stat_counter \subseteq NineCategories
    /\ (result /= Unset /\ result.tag = "Ok") =>
          DOMAIN result.files.stats_tsv = NineCategories

\* a finished run in which two chunks were merged, one of them held an
\* over-fetched record, and the statistics hold zero and non-zero counts
C14_Witness ==
    /\ result /= Unset
    /\ result.tag = "Ok"
    /\ Cardinality({i \in 1..Len(tasks) : DOMAIN tasks[i].output_catcher.stat_counter /= {}}) >= 2
    /\ \E i \in 1..Len(tasks) : \E k \in 1..Len(tasks[i].bounds_ok) : ~tasks[i].bounds_ok[k]
    /\ \E c \in NineCategories : result.files.stats_tsv[c] = 0
    /\ Cardinality({c \in NineCategories : result.files.stats_tsv[c] > 0}) >= 2

\* the reference filter leaves no chunk of this reference
excluded_reference(name) ==
    /\ cfg.reference_filter.tag = "Some"
    /\ IF cfg.reference_filter.v.action = "Keep"
       THEN name \notin cfg.reference_filter.v.references
       ELSE name \in cfg.reference_filter.v.references

\* the records of the file aligned to an excluded reference
excluded_records == {b \in 1..Len(bam) : excluded_reference(targets[bam[b].tid + 1].name)}

\* a region name all of whose intervals lie on excluded references
region_on_excluded_only(name) ==
    IF cfg.matcher = "ReferenceMatcher" THEN excluded_reference(name)
    ELSE /\ \E x \in DOMAIN trees : \E r \in trees[x] : r.gene = name
         /\ \A x \in DOMAIN trees : (\E r \in trees[x] : r.gene = name) => excluded_reference(x)

\* C17: with a reference filter configured, once the chunk list has been
\* filtered no chunk lies on an excluded reference, no task is handed a
\* record aligned to an excluded reference, no region that lies on excluded
\* references only has a count or a matrix line, and a file all of whose
\* records are aligned to excluded references leaves every statistics
\* category at zero.
C17_ExcludedReferencesUntouched ==
    (cfg.reference_filter.tag = "Some" /\ result /= Unset) =>
        /\ \A i \in 1..Len(chunks) : ~excluded_reference(chunks[i].chr)
        /\ Len(tasks) = Len(chunks)
        /\ \A b \in excluded_records : fetched_by(b) = {}
        /\ \A name \in RegionNames :
              region_on_excluded_only(name) =>
                  /\ output.kind = "PerRegion" => Get(output.counter, name, <<0, 0>>) = <<0, 0>>
                  /\ \A i \in 1..Len(tasks) :
                        tasks[i].pc \in {"counted", "merge", "done"} =>
                            \A tok \in 1..Len(tasks[i].interner) :
                                resolve(tasks[i].interner, tok) /= name
        /\ excluded_records = 1..Len(bam) =>
              \A c \in StatCategories : output.stat_counter[c] = 0

\* a finished run with a reference filter whose file holds a record on an
\* excluded reference that overlaps a region there, and a counted record on
\* a kept reference
C17_Witness ==
    /\ cfg.reference_filter.tag = "Some"
    /\ result.tag = "Ok"
    /\ \E b \in excluded_records :
          \/ cfg.matcher = "ReferenceMatcher"
          \/ \E r \in trees[targets[bam[b].tid + 1].name] :
                r.start < bam[b].pos + bam[b].len /\ bam[b].pos < r.end
    /\ \E c \in StatCategories : output.stat_counter[c] > 0

\* C18: in per-position bucketing, while a chunk's sorted stream is read no
\* position that has been flushed holds a bucket again: no record read after
\* the flush of a position was assigned that position, so the check for a
\* position processed twice cannot fire; every flushed position lies more
\* than max_skip_len left of the current position.
C18_FlushedPositionsStayClosed ==
    (w.pc \in {"read", "counted"} /\ cfg.bucket = "PerPosition") =>
        /\ (DOMAIN w.read_catcher) \cap w.debug_processed_ids = {}
        /\ \A p \in w.debug_processed_ids : w.current_pos - p > max_skip_len
        /\ \A k \in DOMAIN w.read_catcher : \A p \in w.debug_processed_ids : p < k

\* with clipping correction on, a record with a leading soft clip was read
\* after a position had been flushed
C18_Witness ==
    /\ w.pc = "read"
    /\ cfg.bucket = "PerPosition"
    /\ max_skip_len > 0
    /\ w.debug_processed_ids /= {}
    /\ w.last_read_pos.tag = "Some"
    /\ w.window[Len(w.window)].clip > 0
    /\ w.window[Len(w.window)].pos - w.window[Len(w.window)].clip \in DOMAIN w.read_catcher

\* the entries of the lists of task t that differ in task t2
changed_entries(t, t2) ==
    {e \in UNION {{<<p, side, k>> : k \in 1..Len(t.read_catcher[p][side])} :
                     p \in DOMAIN t.read_catcher, side \in {"reads_forward", "reads_reverse"}} :
        t2.read_catcher[e[1]][e[2]][e[3]] /= t.read_catcher[e[1]][e[2]][e[3]]}

\* what C19 says of the step of the reading loop from task t to task t2
duplicate_but_preferred_ok(t, t2) ==
    /\ ~(t2.pc = "panic" /\ t2.err = Some(<<"index out of bounds">>))
    /\ \A e \in changed_entries(t, t2) :
          LET old == t.read_catcher[e[1]][e[2]][e[3]].read
              list2 == t2.read_catcher[e[1]][e[2]]
              winner == list2[Len(list2)].read
          IN /\ list2[e[3]].read = Duplicate
             /\ old.kind = "Counted"
             /\ Len(list2) = Len(t.read_catcher[e[1]][e[2]]) + 1
             /\ winner.kind = "Counted"
             /\ old.info.umi = winner.info.umi
             /\ old.info.barcode = winner.info.barcode
             /\ old.info.reverse = winner.info.reverse

\* C19: when the worker acts on DuplicateButPrefered(old_index), old_index is
\* an index of the list it indexes, the entry it turns into Duplicate was
\* Counted with the umi, barcode and orientation of the record just read, and
\* that record is pushed as Counted; no other entry changes.
C19_PreferredReplacesRepresentative ==
    [][(w.pc = "read" /\ w'.pc \in {"read", "panic"} /\ Len(w'.window) = Len(w.window) + 1)
          => duplicate_but_preferred_ok(w, w')]_vars

\* C19 for windows whose records all have one orientation
C19_OneOrientation ==
    [][(/\ w.pc = "read" /\ w'.pc \in {"read", "panic"} /\ Len(w'.window) = Len(w.window) + 1
        /\ \A i, j \in 1..Len(w'.window) : w'.window[i].rev = w'.window[j].rev)
          => duplicate_but_preferred_ok(w, w')]_vars

\* the records of the window share the identity key of the deduplication
same_identity(r1, r2) ==
    /\ r1.umi = r2.umi
    /\ cfg.dedup_mode = "SingleCell" =>
          /\ r1.bc.tag = "Some"
          /\ r2.bc.tag = "Some"
          /\ \E b \in correct(r1.bc.v) : b.tag = "Some" /\ b \in correct(r2.bc.v)

\* C20: in per-position bucketing every entry of a bucket that is Duplicate
\* has, in the list of its own orientation of that bucket, another record
\* with the same identity key: a read becomes Duplicate only on account of a
\* read of the same key, corrected position and orientation, and reads of
\* opposite orientation do not compete.
C20_DuplicateWithinOrientation ==
    (w.pc \in {"read", "counted"} /\ cfg.bucket = "PerPosition") =>
        \A p \in DOMAIN w.read_catcher : \A side \in {"reads_forward", "reads_reverse"} :
            \A k \in 1..Len(w.read_catcher[p][side]) :
                w.read_catcher[p][side][k].read = Duplicate =>
                    \E k2 \in 1..Len(w.read_catcher[p][side]) :
                        /\ k2 /= k
                        /\ same_identity(w.window[w.read_catcher[p][side][k].org_index + 1],
                                         w.window[w.read_catcher[p][side][k2].org_index + 1])

\* C20 for windows whose records all have one orientation
C20_OneOrientation ==
    (w.pc \in {"read", "counted"} /\ \A i, j \in 1..Len(w.window) : w.window[i].rev = w.window[j].rev)
        => C20_DuplicateWithinOrientation

\* the records of the window that did not panic in corrected_pos
checked_records ==
    {k \in 1..Len(w.window) :
        ~(cfg.bucket = "PerPosition" /\ max_skip_len > 0 /\ w.window[k].clip > max_skip_len)}

\* C21 as stated: with clipping correction enabled, a record whose stored
\* position lies in [chunk.start, chunk.stop) passes the bounds check, and a
\* record whose stored position is >= chunk.stop does not.
C21_BoundsCheckOnRawPosition ==
    (w.pc /= "idle" /\ cfg.correct_reads_for_clipping) =>
        \A k \in checked_records :
            /\ (w.chunk.start <= w.window[k].pos /\ w.window[k].pos < w.chunk.stop) => w.bounds_ok[k]
            /\ w.window[k].pos >= w.chunk.stop => ~w.bounds_ok[k]

\* the position the bounds check of the code looks at
bounds_position(read) ==
    IF cfg.bucket = "PerPosition" /\ max_skip_len > 0 THEN read.pos - read.clip ELSE read.pos

\* C21: the bounds check is made on the clipping-corrected position in
\* per-position bucketing with clipping correction enabled, and on the stored
\* position otherwise; a record passes iff that position is below chunk.stop
\* and, unless the chunk starts at 0, not below chunk.start.
C21_BoundsCheckOnBucketPosition ==
    w.pc /= "idle" =>
        \A k \in checked_records :
            w.bounds_ok[k] <=> /\ bounds_position(w.window[k]) < w.chunk.stop
                               /\ (w.chunk.start = 0 \/ bounds_position(w.window[k]) >= w.chunk.start)

\* with clipping correction and per-position bucketing, a record stored
\* inside the chunk was rejected for its corrected position, and a record
\* stored at chunk.stop was accepted for it
C21_Witness ==
    /\ w.pc = "read"
    /\ cfg.correct_reads_for_clipping
    /\ cfg.bucket = "PerPosition"
    /\ \E k \in checked_records :
          \/ /\ w.window[k].pos = w.chunk.start
             /\ w.window[k].pos - w.window[k].clip < w.chunk.start
             /\ ~w.bounds_ok[k]
          \/ /\ w.window[k].pos = w.chunk.stop
             /\ w.window[k].pos - w.window[k].clip < w.chunk.stop
             /\ w.bounds_ok[k]

\* the entries of the open buckets of the task: <<key, list, index>>
open_entries ==
    UNION {{<<p, side, k>> : k \in 1..Len(w.read_catcher[p][side])} :
              p \in DOMAIN w.read_catcher, side \in {"reads_forward", "reads_reverse"}}

\* the record of the window an entry was made for
record_of(e) == w.window[w.read_catcher[e[1]][e[2]][e[3]].org_index + 1]

\* stored position minus leading soft clip with clipping correction, the
\* stored position without
expected_corrected_position(read) ==
    IF cfg.correct_reads_for_clipping THEN read.pos - read.clip ELSE read.pos

\* C22: the corrected_position of every Counted read is its stored position
\* minus its leading soft clip when clipping correction is enabled, negative
\* values included, and its stored position when it is disabled; a record
\* whose corrected position is negative passes the bounds check of a chunk
\* that starts at 0.
C22_CorrectedPosition ==
    w.pc \in {"read", "counted"} =>
        /\ \A e \in open_entries :
              w.read_catcher[e[1]][e[2]][e[3]].read.kind = "Counted" =>
                  w.read_catcher[e[1]][e[2]][e[3]].read.info.corrected_position
                      = expected_corrected_position(record_of(e))
        /\ \A k \in checked_records :
              (w.chunk.start = 0 /\ expected_corrected_position(w.window[k]) < 0) => w.bounds_ok[k]

\* C22 for per-position bucketing
C22_PerPositionBucketing == cfg.bucket = "PerPosition" => C22_CorrectedPosition

\* per-position bucketing with clipping correction: a Counted read with a
\* negative corrected position
C22_NegativeCounted ==
    /\ w.pc = "read"
    /\ cfg.bucket = "PerPosition"
    /\ \E e \in open_entries :
          /\ w.read_catcher[e[1]][e[2]][e[3]].read.kind = "Counted"
          /\ w.read_catcher[e[1]][e[2]][e[3]].read.info.corrected_position < 0

\* the task has panicked with the message about skipped regions
skip_panic == w.pc = "panic" /\ w.err = Some(positions_panic_message(w.window[Len(w.window)]))

\* C23: with clipping correction enabled, a window that holds a record whose
\* leading soft clip exceeds max_skip_length has ended in the panic whose
\* message holds that clip length and max_skip_length, and that panic occurs
\* only for such a record.
C23_ClipBeyondMaxSkipPanics ==
    (w.pc /= "idle" /\ cfg.correct_reads_for_clipping) =>
        /\ \A k \in 1..Len(w.window) :
              w.window[k].clip > cfg.max_skip_length =>
                  /\ k = Len(w.window)
                  /\ w.pc = "panic"
                  /\ w.err = Some(skip_panic_message(w.window[k].clip, cfg.max_skip_length))
        /\ (Len(w.window) > 0 /\ skip_panic) => w.window[Len(w.window)].clip > cfg.max_skip_length

\* C23 for per-position bucketing
C23_PerPositionBucketing == cfg.bucket = "PerPosition" => C23_ClipBeyondMaxSkipPanics

\* per-position bucketing: a record with clip 2 under max_skip_length 1 has
\* ended the task in the panic
C23_PanicReached ==
    /\ cfg.correct_reads_for_clipping
    /\ cfg.bucket = "PerPosition"
    /\ w.pc = "panic"
    /\ Len(w.window) > 1
    /\ w.window[Len(w.window)].clip = 2
    /\ w.err = Some(skip_panic_message(2, 1))

\* the places in the window of the records an AnnotatedRead other than
\* NotInRegion was produced for
annotated_places ==
    {n \in 1..Len(w.window) :
        /\ (n - 1) \in DOMAIN w.idx_to_annotation_decision.v
        /\ w.idx_to_annotation_decision.v[n - 1].kind /= "NotInRegion"}

\* C24: in the shard of a chunk the records come in window order, a record
\* is written iff an AnnotatedRead other than NotInRegion was produced for
\* it, and the record at place n of the window carries the tags of the
\* AnnotatedRead with original index n - 1.
C24_ShardPairing ==
    w.pc = "written" =>
        /\ \A j \in 1..Len(w.shard.v) :
              /\ w.shard.v[j].n \in annotated_places
              /\ w.shard.v[j].aux = aux_of(w.idx_to_annotation_decision.v[w.shard.v[j].n - 1],
                                           w.interner)
        /\ \A i, j \in 1..Len(w.shard.v) : i < j => w.shard.v[i].n < w.shard.v[j].n
        /\ \A n \in annotated_places : \E j \in 1..Len(w.shard.v) : w.shard.v[j].n = n

\* C24 for windows without a NotInRegion record
C24_NoneOutsideRegion ==
    (w.pc = "written" /\ annotated_places = 1..Len(w.window)) => C24_ShardPairing

\* a shard was written for a window with a record outside the region
\* followed by an annotated record
C24_OutsideThenAnnotated ==
    /\ w.pc = "written"
    /\ \E n \in annotated_places : \E m \in 1..(n - 1) : m \notin annotated_places

\* the XF code the states other than Counted are written with
XF_code(kind) ==
    CASE kind = "Filtered" -> 1
      [] kind = "Duplicate" -> 3
      [] kind = "BarcodeNotInWhitelist" -> 4
      [] kind = "NoBarcode" -> 5
      [] kind = "NoUMI" -> 6

\* the tags of one record of the shard, against the AnnotatedRead produced
\* for that record
shard_tags_ok(entry, anno_read) ==
    IF anno_read.kind = "Counted"
    THEN /\ "XF" \notin DOMAIN entry.aux
         /\ "XP" \in DOMAIN entry.aux
         /\ entry.aux.XP = expected_corrected_position(entry.read) + 1
    ELSE /\ "XP" \notin DOMAIN entry.aux
         /\ "XF" \in DOMAIN entry.aux
         /\ entry.aux.XF = XF_code(anno_read.kind)

\* C25: a Counted read of the shard carries XP = its corrected position
\* (stored position minus leading soft clip with clipping correction) + 1 in
\* both bucketings and no XF; every other read of the shard carries no XP and
\* XF = 1 Filtered, 3 Duplicate, 4 BarcodeNotInWhitelist, 5 NoBarcode, 6 NoUMI.
C25_ShardTags ==
    w.pc = "written" =>
        \A j \in 1..Len(w.shard.v) :
            w.shard.v[j].n \in annotated_places =>
                shard_tags_ok(w.shard.v[j], w.idx_to_annotation_decision.v[w.shard.v[j].n - 1])

\* C25 for per-position bucketing and windows without a NotInRegion record
C25_PerPositionNoneOutside ==
    (cfg.bucket = "PerPosition" /\ annotated_places = 1..Len(w.window)) => C25_ShardTags

\* a shard of per-position bucketing holds a Counted read with a leading
\* soft clip and a read that is not Counted
C25_ClippedCountedAndOther ==
    /\ w.pc = "written"
    /\ cfg.bucket = "PerPosition"
    /\ cfg.correct_reads_for_clipping
    /\ annotated_places = 1..Len(w.window)
    /\ \E j \in 1..Len(w.shard.v) : "XP" \in DOMAIN w.shard.v[j].aux /\ w.shard.v[j].read.clip > 0
    /\ \E j \in 1..Len(w.shard.v) : "XF" \in DOMAIN w.shard.v[j].aux

\* per-reference bucketing, a window without a NotInRegion record: a Counted
\* read of the shard carries an XP other than its corrected position + 1
C25_PerReferenceXP ==
    /\ w.pc = "written"
    /\ cfg.bucket = "PerReference"
    /\ annotated_places = 1..Len(w.window)
    /\ \E j \in 1..Len(w.shard.v) :
          /\ "XP" \in DOMAIN w.shard.v[j].aux
          /\ w.shard.v[j].aux.XP /= expected_corrected_position(w.shard.v[j].read) + 1

\* the states the steps of the classification leave to the record at place
\* k of the window of task t, the first step that rejects it deciding
states_by_precedence(t, k) ==
    IF ~t.bounds_ok[k] THEN {"NotInRegion"}
    ELSE IF t.window[k].filt THEN {"Filtered"}
    ELSE IF cfg.cell_barcode /\ t.window[k].bc.tag = "None" THEN {"NoBarcode"}
    ELSE IF cfg.cell_barcode /\ \A c \in correct(t.window[k].bc.v) : c.tag = "None"
         THEN {"BarcodeNotInWhitelist"}
    ELSE IF cfg.umi_extractor /\ t.window[k].umi.tag = "None" THEN {"NoUMI"}
    ELSE {"Counted", "Duplicate"}

\* every record of the open buckets has the state of its first rejecting
\* step, and Counted or Duplicate if no step rejects it
one_state_by_precedence ==
    w.pc \in {"read", "counted"} =>
        \A e \in open_entries :
            w.read_catcher[e[1]][e[2]][e[3]].read.kind
                \in states_by_precedence(w, w.read_catcher[e[1]][e[2]][e[3]].org_index + 1)

\* the deduplication storage of the open buckets
dedup_storages(t) == [p \in DOMAIN t.read_catcher |-> t.read_catcher[p].dedup_storage]

\* a step that reads a record rejected before the deduplication leaves the
\* storage of every bucket as it was, a bucket made for the record aside
rejected_leaves_storage ==
    (/\ w.pc = "read"
     /\ w'.pc = "read"
     /\ Len(w'.window) = Len(w.window) + 1
     /\ states_by_precedence(w', Len(w'.window)) \cap {"Counted", "Duplicate"} = {})
        => \A p \in DOMAIN w'.read_catcher :
              dedup_storages(w')[p] = IF p \in DOMAIN w.read_catcher THEN dedup_storages(w)[p]
                                      ELSE new_bucket

\* the records of the window all have one orientation
one_orientation == \A i, j \in 1..Len(w.window) : w.window[i].rev = w.window[j].rev

\* C28: a record's state is decided by the first step that rejects it, in
\* the order bounds check (NotInRegion), filters (Filtered), barcode
\* extraction and correction (NoBarcode, BarcodeNotInWhitelist), UMI
\* extraction (NoUMI), and it is Counted or Duplicate if no step rejects it;
\* every record has that one state as long as its bucket is open, and a
\* rejected record leaves the storage of the deduplication as it was.
C28_ClassificationPrecedence ==
    [](one_state_by_precedence) /\ [][rejected_leaves_storage]_vars

\* C28 for windows whose records all have one orientation
C28_OneOrientation ==
    [](one_orientation => one_state_by_precedence) /\ [][rejected_leaves_storage]_vars

\* records that fail at several steps carry the state of the first one: a
\* filtered record without barcode and UMI is Filtered, and a record without
\* barcode and UMI is NoBarcode
C28_FirstStepDecides ==
    /\ w.pc = "read"
    /\ cfg.cell_barcode /\ cfg.umi_extractor
    /\ \E e1, e2 \in open_entries :
          /\ record_of(e1).filt /\ record_of(e1).bc.tag = "None" /\ record_of(e1).umi.tag = "None"
          /\ w.read_catcher[e1[1]][e1[2]][e1[3]].read.kind = "Filtered"
          /\ ~record_of(e2).filt /\ record_of(e2).bc.tag = "None" /\ record_of(e2).umi.tag = "None"
          /\ w.read_catcher[e2[1]][e2[2]][e2[3]].read.kind = "NoBarcode"

\* the UMI of the record holds the byte N
n_in_umi(read) == read.umi.tag = "Some" /\ \E k \in 1..Len(read.umi.v) : read.umi.v[k] = "N"

\* the keys of the deduplication storage of the open buckets
dedup_keys == UNION {DOMAIN w.read_catcher[p].dedup_storage : p \in DOMAIN w.read_catcher}

\* C29: with an n_in_umi filter of action remove and a UMI extractor, every
\* read whose extracted UMI holds the byte N is Filtered: it is not Counted
\* or Duplicate, its UMI is no key of the deduplication, and it is tallied as
\* filtered.
C29_NInUmiFiltered ==
    (/\ w.pc \in {"read", "counted"}
     /\ cfg.n_in_umi = Some("Remove")
     /\ cfg.umi_extractor) =>
        /\ \A e \in open_entries :
              (/\ n_in_umi(record_of(e))
               /\ "Counted" \in states_by_precedence(w, w.read_catcher[e[1]][e[2]][e[3]].org_index + 1))
                  => w.read_catcher[e[1]][e[2]][e[3]].read.kind = "Filtered"
        /\ \A key \in dedup_keys : \A k \in 1..Len(key[1]) : key[1][k] /= "N"
        /\ w.pc = "counted" =>
              Get(w.output_catcher.stat_counter, "filtered", 0)
                  >= Cardinality({k \in 1..Len(w.window) :
                                     /\ n_in_umi(w.window[k])
                                     /\ "Counted" \in states_by_precedence(w, k)})

\* C29 for windows without an N in a UMI
C29_NoNInUmi ==
    (\A k \in 1..Len(w.window) : ~n_in_umi(w.window[k])) => C29_NInUmiFiltered

\* with the filter configured, a read whose UMI holds N is Counted and its
\* UMI is the key of the deduplication that made a later read Duplicate
C29_NInUmiCounted ==
    /\ w.pc = "read"
    /\ cfg.n_in_umi = Some("Remove")
    /\ \E e1, e2 \in open_entries :
          /\ n_in_umi(record_of(e1))
          /\ w.read_catcher[e1[1]][e1[2]][e1[3]].read.kind = "Counted"
          /\ n_in_umi(record_of(e2))
          /\ w.read_catcher[e2[1]][e2[2]][e2[3]].read.kind = "Duplicate"

\* the block straddles the left boundary of the chunk
straddles_left(chunk, iv) == iv.start < chunk.start /\ chunk.start < iv.end

\* the block has no position in [chunk.start, chunk.stop)
lies_outside(chunk, iv) == iv.end <= chunk.start \/ iv.start >= chunk.stop

\* the Counted reads of the open buckets whose blocks all lie outside the
\* chunk or straddle its left boundary
counted_without_block_inside ==
    {e \in open_entries :
        /\ w.read_catcher[e[1]][e[2]][e[3]].read.kind = "Counted"
        /\ \A k \in 1..Len(blocks(record_of(e))) :
              \/ straddles_left(w.chunk, blocks(record_of(e))[k])
              \/ lies_outside(w.chunk, blocks(record_of(e))[k])}

\* C30: with the interval-tree matcher, a block that straddles the left
\* boundary of a chunk and a block that lies outside [chunk.start,
\* chunk.stop), one that touches a boundary included, contribute no hits in
\* that chunk: a Counted read with no other block has no hits.
C30_OutsideBlocksUncredited ==
    (w.pc \in {"read", "counted"} /\ cfg.matcher = "TreeMatcher") =>
        \A e \in counted_without_block_inside :
            /\ w.read_catcher[e[1]][e[2]][e[3]].read.info.hits.correct = <<>>
            /\ w.read_catcher[e[1]][e[2]][e[3]].read.info.hits.reverse = <<>>

\* C30 for reads whose stored position is below chunk.stop
C30_StoredInsideChunk ==
    (\A k \in 1..Len(w.window) : w.window[k].pos < w.chunk.stop) => C30_OutsideBlocksUncredited

\* a Counted read whose block begins at chunk.stop is credited with a region
\* that lies right of the chunk
C30_TouchingBlockCredited ==
    /\ w.pc = "read"
    /\ cfg.matcher = "TreeMatcher"
    /\ \E e \in counted_without_block_inside :
          /\ record_of(e).pos = w.chunk.stop
          /\ Len(w.read_catcher[e[1]][e[2]][e[3]].read.info.hits.correct) > 0

\* a Counted read whose block crosses chunk.stop is credited in the chunk of
\* its left end
C30_RightStraddleCredited ==
    /\ w.pc = "read"
    /\ cfg.matcher = "TreeMatcher"
    /\ \E e \in open_entries :
          /\ w.read_catcher[e[1]][e[2]][e[3]].read.kind = "Counted"
          /\ record_of(e).pos < w.chunk.stop
          /\ record_of(e).pos + record_of(e).len > w.chunk.stop
          /\ Len(w.read_catcher[e[1]][e[2]][e[3]].read.info.hits.correct) > 0

\* the tasks that hold the guard of the output mutex
lock_holders == {i \in 1..Len(tasks) : output_lock = Some(i)}

\* C26 as stated: a chunk task holds the output lock only at chunk
\* completion, for the merge of its tally.
C26_LockOnlyAtCompletion ==
    \A i \in lock_holders : tasks[i].pc = "merge"

\* the lock is held exactly by a task that is at one of its two lock
\* statements
lock_at_statements ==
    /\ output_lock /= None => lock_holders /= {}
    /\ \A i \in 1..Len(tasks) :
          (output_lock = Some(i)) <=> tasks[i].pc \in {"per_chunk", "merge"}

\* a step that changes the shared Output is the merge of the lock holder
output_written_under_lock ==
    output' /= output =>
        \E i \in lock_holders : tasks[i].pc = "merge" /\ tasks'[i].pc = "done"

\* C26: each chunk task takes the output lock twice, for the statement that
\* creates its per-chunk counter at the start and for the statement that
\* merges its tally at completion; it holds no lock while it fetches and
\* processes records, and the shared Output changes only in the merge of the
\* task that holds the lock.
C26_LockAtStartAndCompletion ==
    [](lock_at_statements) /\ [][output_written_under_lock]_vars

\* a task holds the lock for per_chunk() while another task has processed
\* its records without it
C26_Witness ==
    \E i, j \in 1..Len(tasks) :
        /\ i /= j
        /\ output_lock = Some(i)
        /\ tasks[i].pc = "per_chunk"
        /\ tasks[j].pc = "counted"
        /\ Len(tasks[j].window) > 0

\* quantify_bam has returned Ok from the pool: no task failed
finished_ok == result /= Unset /\ result.tag = "Ok" /\ result.from = "tasks"

\* every chunk of the retained list has its one task, every task has merged,
\* the mutex is free, and the shared Output holds every task's tally once
all_merged_once ==
    /\ Len(tasks) = Len(chunks)
    /\ \A i \in 1..Len(tasks) : tasks[i].pc = "done" /\ tasks[i].chunk = chunks[i]
    /\ output_lock = None
    /\ \A c \in StatCategories :
          output.stat_counter[c]
              = SumOf([i \in 1..Len(tasks) |-> Get(tasks[i].output_catcher.stat_counter, c, 0)],
                      1..Len(tasks))
    /\ output.kind = "PerRegion" =>
          \A name \in RegionNames :
              Get(output.counter, name, <<0, 0>>)
                  = <<SumOf([i \in 1..Len(tasks) |-> task_region_count(tasks[i], name, 1)],
                            1..Len(tasks)),
                      SumOf([i \in 1..Len(tasks) |-> task_region_count(tasks[i], name, 2)],
                            1..Len(tasks))>>

\* a task that has merged takes no further step, and the list of tasks keeps
\* its length once the pool runs
merged_stays_merged ==
    \A i \in 1..Len(tasks) :
        tasks[i].pc = "done" => (Len(tasks') = Len(tasks) /\ tasks'[i] = tasks[i])

\* a task between bam.fetch and its second lock statement can run, and the
\* run takes it to the merge, to an error or to a panic
run_ends ==
    \A i \in 1..Len(tasks) :
        tasks[i].pc = "read" =>
            /\ run_task(tasks[i], fetch(chunks[i])) /= {}
            /\ \A t \in run_task(tasks[i], fetch(chunks[i])) : t.pc \in {"counted", "err", "panic"}

pool_running == result = [tag |-> "Running"]

pool_returned == result /= Unset /\ result.tag \in {"Ok", "Err", "Panic"}

\* C27: when quantify_bam returns Ok, every chunk of the retained chunk list
\* was processed by its one task, every task's tally is in the shared Output
\* exactly once and Output::finish ran after all merges with the lock free; a
\* merged task takes no further step; and whatever the interleaving, the pool
\* returns: no task waits for the output lock forever.
C27_EveryChunkMergedOnce ==
    /\ [](finished_ok => all_merged_once)
    /\ [](run_ends)
    /\ [][merged_stays_merged]_vars
    /\ (pool_running ~> pool_returned)

\* quantify_bam returned Ok after two chunks with records were merged
C27_Witness ==
    /\ finished_ok
    /\ Len(tasks) >= 2
    /\ \A i \in 1..Len(tasks) : tasks[i].pc = "done" /\ Len(tasks[i].window) > 0

\* a task waits for the output lock that another task holds for its merge
C27_Contention ==
    \E i, j \in 1..Len(tasks) :
        /\ output_lock = Some(i)
        /\ tasks[i].pc = "merge"
        /\ tasks[j].pc \in {"todo", "counted"}

----------------------------------------------------------------------------
(* combine_temporary_bams (src/engine.rs)                                   *)

MaxHeader == 3

MaxCombineChunks == 3

\* reference names a header may hold; one of them contains a colon
CombineNames == {"chr1", "chr2", "c", "c:1"}

has_colon(x) == \E i \in 1..Len(x) : x[i] = ":"

first_colon(x) == CHOOSE i \in 1..Len(x) : x[i] = ":" /\ \A j \in 1..(i - 1) : x[j] /= ":"

\* x.split_once(":").expect(..).0
split_once_0(x) == IF has_colon(x) THEN Some(SubSeq(x, 1, first_colon(x) - 1)) ELSE Panic

\* chunk_name.split(':').collect()
RECURSIVE split_colon(_)
split_colon(x) ==
    IF ~has_colon(x) THEN <<x>>
    ELSE <<SubSeq(x, 1, first_colon(x) - 1)>> \o split_colon(SubSeq(x, first_colon(x) + 1, Len(x)))

digit_value(ch) == (CHOOSE d \in 1..10 : DigitChars[d] = ch) - 1

RECURSIVE number_of(_)
number_of(part) ==
    IF Len(part) = 1 THEN digit_value(part[1])
    ELSE number_of(SubSeq(part, 1, Len(part) - 1)) * 10 + digit_value(part[Len(part)])

\* parts[1].parse::<u32>()
parse_u32(part) ==
    IF part /= <<>> /\ \A k \in 1..Len(part) : \E d \in 1..10 : DigitChars[d] = part[k]
    THEN Some(number_of(part))
    ELSE None

\* chunk_names.iter().filter(|x| x.split_once(":")...0 == target_name)
target_chunks(chunk_names, target_name) ==
    SelectSeq(chunk_names, LAMBDA x : split_once_0(x) = Some(name_bytes(target_name)))

\* the loop over the chunk names of one target: the checks and res.push
RECURSIVE verify_sorted(_, _, _)
verify_sorted(names, last_pos, res) ==
    IF names = <<>> THEN [tag |-> "Ok", res |-> res]
    ELSE IF Len(split_colon(Head(names))) /= 3
         THEN [tag |-> "Err", msg |-> "not in the expected format"]
    ELSE IF parse_u32(split_colon(Head(names))[2]).tag /= "Some"
         THEN [tag |-> "Err", msg |-> "Failed to parse position from chunk name"]
    ELSE IF parse_u32(split_colon(Head(names))[2]).v < last_pos
         THEN [tag |-> "Err", msg |-> "Chunk names are not sorted by position"]
    ELSE verify_sorted(Tail(names), parse_u32(split_colon(Head(names))[2]).v,
                       Append(res, Head(names) \o <<".bam">>))

\* the loop over hv.target_names()
RECURSIVE sorted_chunk_names(_, _, _)
sorted_chunk_names(chunk_names, target_names, acc) ==
    IF acc.tag /= "Ok" \/ target_names = <<>> THEN acc
    ELSE sorted_chunk_names(chunk_names, Tail(target_names),
                            verify_sorted(target_chunks(chunk_names, Head(target_names)), 0, acc.res))

\* combine_temporary_bams: the shards written to annotated.bam, in order
combine_temporary_bams(chunk_names, target_names) ==
    sorted_chunk_names(chunk_names, target_names, [tag |-> "Ok", res |-> <<>>])

\* the chunks a header's references may be cut into
CombineChunkPool(header) ==
    {Chunk(header[k], k - 1, b[1], b[2]) : k \in 1..Len(header), b \in {<<0, 3>>, <<3, 6>>}}

InitCombine ==
    /\ \E H \in SubsetsUpTo(CombineNames, MaxHeader) :
          /\ H /= {}
          /\ output_header \in Orders(H)
    /\ \E S \in SubsetsUpTo(CombineChunkPool(output_header), MaxCombineChunks) :
          /\ S /= {}
          /\ chunk_list \in Orders(S)
    /\ combined = Unset

IdleCombine ==
    /\ output_header = <<>>
    /\ chunk_list = <<>>
    /\ combined = Unset

\* the call combine_temporary_bams(&chunk_names, ..) at the end of quantify_bam
CallCombineTemporaryBams ==
    /\ combined = Unset
    /\ chunk_list /= <<>>
    /\ combined' = combine_temporary_bams([k \in 1..Len(chunk_list) |-> str_id(chunk_list[k])],
                                          output_header)
    /\ UNCHANGED <<output_header, chunk_list, mil_vars, bc_cfg_vars, match_vars, bc_vars, in_vars, cg_vars,
                   cfg, w_vars, eng_vars, gtf_vars>>

\* the chunk list is one the chunk generators produce: per reference the
\* chunks start at 0 and follow each other
generated_order(cl) ==
    \A i \in 1..Len(cl) :
        IF \E j \in 1..(i - 1) : cl[j].chr = cl[i].chr
        THEN cl[i - 1].chr = cl[i].chr /\ cl[i].start = cl[i - 1].stop
        ELSE cl[i].start = 0

header_index(name) == CHOOSE k \in 1..Len(output_header) : output_header[k] = name

\* the file a chunk's annotated reads were written to (write_annotated_reads)
shard_file(c) == str_id(c) \o <<".bam">>

\* the chunk of the list that a shard file belongs to
chunk_named(x) == CHOOSE c \in {chunk_list[k] : k \in 1..Len(chunk_list)} : shard_file(c) = x

\* C15: when the shards are combined, they come in header order of their
\* references and, within a reference, in increasing chunk start, every shard
\* of the chunk list exactly once; and a chunk list in which a chunk start is
\* lower than that of its predecessor of the same reference makes the
\* combination fail.
C15_ShardOrder ==
    combined /= Unset =>
        /\ combined.tag = "Ok" =>
              /\ Len(combined.res) = Len(chunk_list)
              /\ \A k \in 1..Len(chunk_list) :
                    Cardinality({i \in 1..Len(combined.res) : combined.res[i] = shard_file(chunk_list[k])}) = 1
              /\ \A i, j \in 1..Len(combined.res) :
                    i < j =>
                      LET a == chunk_named(combined.res[i])
                          b == chunk_named(combined.res[j])
                      IN \/ header_index(a.chr) < header_index(b.chr)
                         \/ (a.chr = b.chr /\ a.start < b.start)
        /\ (\E i, j \in 1..Len(chunk_list) :
                i < j /\ chunk_list[i].chr = chunk_list[j].chr
                      /\ chunk_list[j].start < chunk_list[i].start)
              => combined.tag = "Err"

\* C15 restricted to reference names without a colon
C15_ShardOrderPlainNames ==
    (\A k \in 1..Len(output_header) : ~has_colon(name_bytes(output_header[k]))) => C15_ShardOrder

\* a chunk list as the generators produce it, over a reference whose name
\* holds a colon, combined without an error and without its shards
C15_ColonNameDropsShards ==
    ~(/\ combined /= Unset
      /\ generated_order(chunk_list)
      /\ combined.tag = "Ok"
      /\ Len(combined.res) < Len(chunk_list))

----------------------------------------------------------------------------
(* Input::read_gtf (src/config.rs), GTFEntrys::filter (src/gtf.rs)          *)

MaxGtfRows == 3

\* values of the duplication detection attribute; two of them end in a
\* hyphen and a number
GtfIds == {<<"a">>, <<"b">>, <<"a", "-", "1">>, <<"a", "-", "2">>}

\* (start, end) of a row, start already 0-based
GtfSpans == {<<0, 2>>, <<1, 2>>}

\* the parallel vectors of a GTFEntrys: start, end and the vector of the
\* duplication detection attribute
GTFEntrys(rows) ==
    [start |-> [k \in 1..Len(rows) |-> rows[k][1][1]],
     end   |-> [k \in 1..Len(rows) |-> rows[k][1][2]],
     id    |-> [k \in 1..Len(rows) |-> rows[k][2]]]

\* Vec::retain with the keep iterator
RECURSIVE retain(_, _)
retain(values, keep) ==
    IF values = <<>> THEN <<>>
    ELSE (IF Head(keep) THEN <<Head(values)>> ELSE <<>>) \o retain(Tail(values), Tail(keep))

\* GTFEntrys::filter
filter(entries, keep) ==
    IF Len(keep) = 0 THEN entries
    ELSE [start |-> retain(entries.start, keep),
          end   |-> retain(entries.end, keep),
          id    |-> retain(entries.id, keep)]

\* the Collapse loop: keep[ii] = false for a key already seen
RECURSIVE collapse_keep(_, _, _, _)
collapse_keep(entries, ii, seen, keep) ==
    IF ii > Len(entries.start) THEN keep
    ELSE IF <<entries.start[ii], entries.end[ii], entries.id[ii]>> \in seen
         THEN collapse_keep(entries, ii + 1, seen, [keep EXCEPT ![ii] = FALSE])
    ELSE collapse_keep(entries, ii + 1,
                       seen \cup {<<entries.start[ii], entries.end[ii], entries.id[ii]>>}, keep)

\* the Rename loop: *id = format!("{}-{}", id, ii) for a key already in
\* counter; ii is the 0-based row index, the model's index is ii + 1
RECURSIVE rename_ids(_, _, _)
rename_ids(entries, ii, counter) ==
    IF ii > Len(entries.start) THEN entries
    ELSE IF <<entries.start[ii], entries.end[ii], entries.id[ii]>> \in counter
         THEN rename_ids([entries EXCEPT !.id[ii] = @ \o <<"-">> \o digits(ii - 1)],
                         ii + 1, counter)
    ELSE rename_ids(entries, ii + 1,
                    counter \cup {<<entries.start[ii], entries.end[ii], entries.id[ii]>>})

\* the match on collapse_or_rename_duplicates, for one feature type
read_gtf(entries, handling) ==
    IF handling = "Collapse"
    THEN filter(entries, collapse_keep(entries, 1, {}, [k \in 1..Len(entries.start) |-> TRUE]))
    ELSE rename_ids(entries, 1, {})

InitGtf ==
    /\ \E n \in 1..MaxGtfRows : \E rows \in [1..n -> GtfSpans \X GtfIds] : parsed = GTFEntrys(rows)
    /\ duplicate_handling \in {"Collapse", "Rename"}
    /\ gtf_entries = Unset

IdleGtf ==
    /\ parsed = [start |-> <<>>, end |-> <<>>, id |-> <<>>]
    /\ duplicate_handling = "Collapse"
    /\ gtf_entries = Unset

\* Input::read_gtf
ReadGtf ==
    /\ gtf_entries = Unset
    /\ parsed.start /= <<>>
    /\ gtf_entries' = read_gtf(parsed, duplicate_handling)
    /\ UNCHANGED <<parsed, duplicate_handling, mil_vars, bc_cfg_vars, match_vars, bc_vars, in_vars, cg_vars,
                   cfg, w_vars, eng_vars, cb_vars>>

row_key(entries, i) == <<entries.start[i], entries.end[i], entries.id[i]>>

\* the rows of the parsed entries that repeat the key of an earlier row
duplicate_rows == {i \in 1..Len(parsed.start) : \E j \in 1..(i - 1) : row_key(parsed, j) = row_key(parsed, i)}

\* after collapse, the first row of each key is kept, in order, and the row
\* count has decreased by the number of duplicate rows
C16_CollapseKeepsFirst ==
    (gtf_entries /= Unset /\ duplicate_handling = "Collapse") =>
        /\ Len(gtf_entries.start) = Len(parsed.start) - Cardinality(duplicate_rows)
        /\ Len(gtf_entries.end) = Len(gtf_entries.start)
        /\ Len(gtf_entries.id) = Len(gtf_entries.start)
        /\ gtf_entries.id = retain(parsed.id, [k \in 1..Len(parsed.start) |-> k \notin duplicate_rows])
        /\ \A i, j \in 1..Len(gtf_entries.start) :
              i /= j => row_key(gtf_entries, i) /= row_key(gtf_entries, j)

\* after rename, no two rows share (start, end, id) and no id that was
\* changed equals an id the parsed entries held
C16_RenameMakesUnique ==
    (gtf_entries /= Unset /\ duplicate_handling = "Rename") =>
        /\ \A i, j \in 1..Len(gtf_entries.start) :
              i /= j => row_key(gtf_entries, i) /= row_key(gtf_entries, j)
        /\ \A i \in 1..Len(gtf_entries.start) :
              gtf_entries.id[i] /= parsed.id[i] =>
                  \A j \in 1..Len(parsed.start) : parsed.id[j] /= gtf_entries.id[i]

\* C16: after ingest with rename, no two rows of a feature type share the
\* same (start, end, id) and no id made by appending -<row-index> equals an
\* id already present; after ingest with collapse, the first row of each
\* (start, end, id) is kept and the row count decreases by exactly the number
\* of duplicate rows.
C16_DuplicateHandling == C16_RenameMakesUnique /\ C16_CollapseKeepsFirst

\* the rename part of C16 for entries none of whose ids ends in a hyphen
\* and a number
C16_RenamePlainIds ==
    (\A i \in 1..Len(parsed.id) : Len(parsed.id[i]) = 1) => C16_RenameMakesUnique

----------------------------------------------------------------------------
(* Specifications                                                           *)

----------------------------------------------------------------------------
(* Deduplication per reference (src/engine.rs, Engine::quantify_bam)        *)

per_reference_umi == cfg.dedup_mode = "Umi" /\ cfg.bucket = "PerReference"

\* the reads a finished task tallied as Counted
counted_in_task(t) ==
    SumOf([c \in {"correct", "reverse", "ambiguous", "outside"} |->
              Get(t.output_catcher.stat_counter, c, 0)],
          {"correct", "reverse", "ambiguous", "outside"})

\* the reads Counted on one reference over all its chunks
counted_on_reference(tid) ==
    SumOf([i \in 1..Len(tasks) |-> counted_in_task(tasks[i])],
          {i \in 1..Len(tasks) : chunks[i].tid = tid})

\* the UMIs of the records of one reference
umis_on_reference(tid) ==
    {bam[b].umi.v : b \in {x \in 1..Len(bam) : bam[x].tid = tid /\ bam[x].umi.tag = "Some"}}

\* C36: with dedup mode umi and bucket per_reference at most one read per
\* (reference, UMI) is Counted over the whole run, also when the reads lie at
\* different positions or the reference is split into several chunks.
C36_OneCountedPerReferenceAndUmi ==
    (per_reference_umi /\ finished_ok) =>
        \A tid \in {chunks[i].tid : i \in 1..Len(chunks)} :
            counted_on_reference(tid) <= Cardinality(umis_on_reference(tid))

\* C36, per chunk: a finished task has Counted at most one read per UMI of
\* its window
C36_OneCountedPerChunkAndUmi ==
    per_reference_umi =>
        \A i \in 1..Len(tasks) :
            tasks[i].pc \in {"counted", "merge", "done"} =>
                counted_in_task(tasks[i]) <=
                    Cardinality({tasks[i].window[k].umi.v :
                                    k \in {x \in 1..Len(tasks[i].window) :
                                              tasks[i].window[x].umi.tag = "Some"}})

\* two chunks of one reference each Counted a read with the same UMI
C36_CountedInTwoChunks ==
    /\ per_reference_umi /\ finished_ok
    /\ \E i, j \in 1..Len(tasks) :
          /\ i < j /\ chunks[i].tid = chunks[j].tid
          /\ counted_in_task(tasks[i]) = 1 /\ counted_in_task(tasks[j]) = 1
          /\ Cardinality(umis_on_reference(chunks[i].tid)) = 1

\* C36, single bucket: while the window of a per_reference task is read the
\* only key of its map is chunk.stop + max_skip_len and nothing is flushed
C36_SingleBucketUntilWindowCloses ==
    (cfg.bucket = "PerReference" /\ w.pc = "read") =>
        /\ DOMAIN w.read_catcher \subseteq {w.chunk.stop + max_skip_len}
        /\ w.debug_processed_ids = {}
        /\ w.output_catcher = per_chunk(cfg.output)

\* a per_reference task holds reads stored at two positions in its bucket
C36_TwoPositionsOneBucket ==
    /\ per_reference_umi /\ w.pc = "read"
    /\ \E k1, k2 \in 1..Len(w.window) :
          /\ w.window[k1].pos < w.window[k2].pos
          /\ w.bounds_ok[k1] /\ w.bounds_ok[k2]
    /\ DOMAIN w.read_catcher = {w.chunk.stop + max_skip_len}

----------------------------------------------------------------------------
(* The size of the per-position map (src/engine.rs, Engine::quantify_bam)   *)

\* a step of the while loop body: read_until_next_pos returned Some(next_pos)
\* and the done positions were captured
flush_step == w.pc = "read" /\ must_return(w) /\ w'.pc = "read"

\* the loop over the remaining blocks after bam.read returned None
close_step == w.pc = "read" /\ ~must_return(w) /\ w'.pc = "counted"

bucket_keys(t) == DOMAIN t.read_catcher

\* the keys lie within max_skip_len of the cursor of the task
keys_near_cursor(t) ==
    \A k \in bucket_keys(t) : t.current_pos - max_skip_len <= k /\ k <= t.current_pos

\* the records of the window that passed the bounds check
accepted_records(t) == {k \in 1..Len(t.window) : t.bounds_ok[k]}

\* every remaining bucket is captured, none of them for the second time,
\* and each accepted record of the window is tallied once
remainder_flushed_once ==
    close_step =>
        /\ bucket_keys(w) \cap w.debug_processed_ids = {}
        /\ w'.read_catcher = EmptyMap
        /\ SumMap(w'.output_catcher.stat_counter) = Cardinality(accepted_records(w))

\* C37 (as stated): in per-position bucketing, after each flush step every
\* key of the map lies in [current_pos - max_skip_len, current_pos], so at
\* most max_skip_len + 1 buckets are held; every bucket still in the map
\* when the window closes is flushed exactly once.
C37_KeysWithinMaxSkipOfCursor ==
    /\ [][(cfg.bucket = "PerPosition" /\ flush_step) =>
              /\ keys_near_cursor(w')
              /\ Cardinality(bucket_keys(w')) <= max_skip_len + 1]_vars
    /\ [][cfg.bucket = "PerPosition" => remainder_flushed_once]_vars

\* C37 (amended): in per-position bucketing, after each flush step every
\* key of the map lies between the cursor before the step minus max_skip_len
\* and the cursor after the step, at most max_skip_len + 2 buckets are held
\* then and at most 2 * max_skip_len + 3 at any time, whatever the chunk
\* size; every bucket still in the map when the window closes is flushed
\* exactly once.
C37_KeysWithinMaxSkipOfPreviousCursor ==
    /\ [](cfg.bucket = "PerPosition" /\ w.pc = "read" =>
             Cardinality(bucket_keys(w)) <= 2 * max_skip_len + 3)
    /\ [][(cfg.bucket = "PerPosition" /\ flush_step) =>
              /\ \A k \in bucket_keys(w') :
                    w.current_pos - max_skip_len <= k /\ k <= w'.current_pos
              /\ Cardinality(bucket_keys(w')) <= max_skip_len + 2]_vars
    /\ [][cfg.bucket = "PerPosition" => remainder_flushed_once]_vars

\* right after a flush step a bucket is held that lies further than
\* max_skip_len behind the cursor, and max_skip_len + 2 buckets are held
C37_Witness ==
    /\ cfg.bucket = "PerPosition" /\ w.pc = "read"
    /\ w.last_read_pos = None
    /\ \E k \in bucket_keys(w) : k < w.current_pos - max_skip_len
    /\ Cardinality(bucket_keys(w)) = max_skip_len + 2

\* a window closed with two buckets still in the map
C37_RemainderFlushed ==
    /\ cfg.bucket = "PerPosition" /\ w.pc = "counted"
    /\ Cardinality({w.window[k].pos - w.window[k].clip : k \in accepted_records(w)}) >= 2
    /\ SumMap(w.output_catcher.stat_counter) = Cardinality(accepted_records(w))

----------------------------------------------------------------------------
(* Termination of the chunker (src/engine/chunked_genome.rs)                *)

\* an iteration of the extension loop that found a region and went on
loop_iteration == cg_pc = "loop" /\ cg_pc' = "loop"

\* the chunks handed out for a reference
chunks_of(chr) == {i \in 1..Len(chunks) : chunks[i].chr = chr}

\* the chunks of every reference iterated reach its end
references_covered ==
    \A k \in 1..Len(chromosomes) :
        \E i \in chunks_of(chromosomes[k]) :
            chunks[i].stop >= target_len(tid_of(chromosomes[k]).v)

\* C38: the stop-extension loop of the chunker ends for every region index,
\* each of its iterations strictly increases stop, and the panic branch is
\* never reached; the iterator ends after finitely many chunks, which
\* together reach the end of each reference.
C38_ChunkerTerminates ==
    /\ [](cg_pc /= "panic")
    /\ [][loop_iteration => stop' > stop]_vars
    /\ (cg_pc = "loop" ~> cg_pc = "next")
    /\ <>(cg_pc = "collected")
    /\ [](cg_pc = "collected" => references_covered)

\* the iterator ended after a loop that extended stop past a region, with
\* two chunks on one reference
C38_Witness ==
    /\ cg_pc = "collected"
    /\ \E i \in 1..Len(chunks) : chunks[i].stop > chunks[i].start + chunk_size
    /\ \E i, j \in 1..Len(chunks) : i < j /\ chunks[i].chr = chunks[j].chr

----------------------------------------------------------------------------
(* Per-region counts at the largest usize (src/engine.rs, count_reads)      *)

MaxTallyReads == 2

\* counts far from and next to usize::MAX
TallyValues == {0, 1, usize_MAX - 1, usize_MAX}

\* a Counted read with one hit, in the correct or in the reverse list
TallyReads ==
    {Counted([hits |-> [correct |-> c, reverse |-> r], barcode |-> None]) :
        c \in {<<1>>, <<>>}, r \in {<<1>>, <<>>}}

\* a chunk task that has tallied g1 so far, and the Output that holds the
\* sums of the chunks merged before
InitTally ==
    /\ cfg = EngineBaseCfg
    /\ \E a, b \in TallyValues :
          w = [new_task(Chunk(RefNames[1], 0, 0, 3), "PerRegion") EXCEPT
                  !.interner = <<"g1">>,
                  !.output_catcher.counter = Put(EmptyMap, 1, <<a, b>>)]
    /\ \E c, d \in TallyValues :
          output = [new_per_region(None) EXCEPT !.counter = Put(EmptyMap, "g1", <<c, d>>)]
    /\ tasks = <<>>
    /\ result = Unset
    /\ output_lock = None

\* CounterPerChunk::count_reads for one more Counted read of the chunk
TallyCount ==
    /\ w.pc = "read"
    /\ w.org_index < MaxTallyReads
    /\ \E read \in TallyReads :
          w' = [w EXCEPT !.output_catcher = count_entry(@, read), !.org_index = @ + 1]
    /\ UNCHANGED <<mil_vars, bc_cfg_vars, match_vars, bc_vars, in_vars, cb_vars, gtf_vars, cg_vars, cfg,
                   eng_vars>>

\* self.output.lock().count_reads(&chunk, &interner, output_catcher)
TallyMerge ==
    /\ w.pc = "read"
    /\ output' \in Output_count_reads(output, w.chunk, w.interner, w.output_catcher)
    /\ w' = [w EXCEPT !.pc = "done"]
    /\ UNCHANGED <<mil_vars, bc_cfg_vars, match_vars, bc_vars, in_vars, cb_vars, gtf_vars, cg_vars, cfg,
                   tasks, result, output_lock>>

\* the sum that saturates at the largest usize
saturated(a, b) == IF a + b >= usize_MAX THEN usize_MAX ELSE a + b

\* what a Counted read adds to the two counts of its region
increment_of(read) ==
    <<IF read.info.hits.correct = <<>> THEN 0 ELSE 1, IF read.info.hits.reverse = <<>> THEN 0 ELSE 1>>

\* a chunk worker's increment saturates
worker_saturates ==
    (w.pc = "read" /\ w'.pc = "read" /\ w'.org_index = w.org_index + 1) =>
        \E read \in TallyReads :
            \A c \in 1..2 :
                w'.output_catcher.counter[1][c] =
                    saturated(w.output_catcher.counter[1][c], increment_of(read)[c])

\* the addition of a chunk's tally into the global table saturates
merge_saturates ==
    (w.pc = "read" /\ w'.pc = "done") =>
        /\ output' /= Panic
        /\ \A c \in 1..2 :
              output'.counter["g1"][c] =
                  saturated(output.counter["g1"][c], w.output_catcher.counter[1][c])

\* the addition of a chunk's tally is exact while the sums can be represented
merge_exact_below_max ==
    (/\ w.pc = "read" /\ w'.pc = "done"
     /\ \A c \in 1..2 : output.counter["g1"][c] + w.output_catcher.counter[1][c] <= usize_MAX) =>
        /\ output' /= Panic
        /\ \A c \in 1..2 :
              output'.counter["g1"][c] = output.counter["g1"][c] + w.output_catcher.counter[1][c]

\* C39: per-region counts saturate at the largest representable unsigned
\* value, without wrapping or panicking, both when a chunk worker increments
\* a count and when a chunk's tally is added into the global table.
C39_CountsSaturate == [][worker_saturates /\ merge_saturates]_vars

\* C39, the chunk worker alone, and the merge below the largest value
C39_WorkerSaturatesMergeExact == [][worker_saturates /\ merge_exact_below_max]_vars

\* a merge of a tally into a count next to the largest value wrapped around
C39_MergeWrapped ==
    /\ w.pc = "done" /\ output /= Panic
    /\ w.output_catcher.counter[1][1] = usize_MAX
    /\ output.counter["g1"][1] = 0

\* a merge past the largest value panicked
C39_MergePanicked == w.pc = "done" /\ output = Panic

\* a chunk worker's count stays at the largest value
C39_WorkerSaturated ==
    /\ w.pc = "read" /\ w.org_index = MaxTallyReads
    /\ w.output_catcher.counter[1][1] = usize_MAX
    /\ Get(w.output_catcher.stat_counter, "correct", 0) = MaxTallyReads

----------------------------------------------------------------------------
(* Special cases of the barcode corrector (src/barcodes.rs)                 *)

\* a segment that has a whitelist and is not an exact member of it
inexact_segment ==
    \E i \in 1..Min(Len(split(raw_barcode)), Len(whitelists)) :
        split(raw_barcode)[i] \notin whitelists[i]

\* with max_hamming = 0 a segment that is not an exact member of its
\* whitelist is not corrected: the barcode yields None
no_approximate_matching ==
    (corrected /= Unset /\ max_hamming = 0 /\ inexact_segment) => corrected = None

\* C40: with an empty list of whitelists correct() returns the input barcode
\* unchanged when it is non-empty and None when it is empty; with
\* max_hamming = 0 a segment that is not an exact whitelist member is never
\* corrected, so the barcode yields None.
C40_CorrectorSpecialCases ==
    /\ (corrected /= Unset /\ whitelists = <<>>) =>
          corrected = IF raw_barcode /= <<>> THEN Some(raw_barcode) ELSE None
    /\ no_approximate_matching

\* C40, max_hamming = 0 alone
C40_NoApproximateMatching == no_approximate_matching

\* without whitelists a non-empty barcode is returned as the empty barcode
C40_EmptyBarcodeReturned ==
    /\ whitelists = <<>>
    /\ raw_barcode /= <<>>
    /\ corrected = Some(<<>>)

\* with max_hamming = 0 a barcode one base off its whitelist entry yields None
C40_InexactRejected ==
    /\ max_hamming = 0 /\ inexact_segment
    /\ \E i \in 1..Min(Len(split(raw_barcode)), Len(whitelists)) :
          \E e \in whitelists[i] :
              Len(e) = Len(split(raw_barcode)[i]) /\ hamming(e, split(raw_barcode)[i]) = 1
    /\ corrected = None

----------------------------------------------------------------------------
(* ReadToGeneMatcher::hits on one read (src/engine.rs)                      *)

MaxMatcherRegions == 3

MatcherStrands == {"Forward", "Reverse", "Unstranded"}

\* the annotation of chr1: genes gA [0,3), gB [0,1) and gC [2,3) on any
\* strand, a second exon of gC at [0,1) and a second exon of gB at [4,5)
MatcherRegions ==
    {[start |-> 0, end |-> 3, gene |-> "gA", strand |-> s] : s \in MatcherStrands}
    \cup {[start |-> 0, end |-> 1, gene |-> "gB", strand |-> s] : s \in MatcherStrands}
    \cup {[start |-> 2, end |-> 3, gene |-> "gC", strand |-> s] : s \in MatcherStrands}
    \cup {[start |-> 0, end |-> 1, gene |-> "gC", strand |-> "Forward"],
          [start |-> 4, end |-> 5, gene |-> "gB", strand |-> "Forward"]}

\* no region crosses position 3
MatcherChunks == {Chunk(RefNames[1], 0, 0, 3), Chunk(RefNames[1], 0, 0, 6)}

\* a read of two aligned blocks separated by a deletion or a skipped region
SplicedRead(pos, len, gap, len2, rev) ==
    [Read(0, pos, 0, len, rev) EXCEPT !.gap = gap, !.len2 = len2]

MatcherReads ==
    {Read(0, pos, 0, 1, rev) : pos \in 0..2, rev \in BOOLEAN}
    \cup {Read(0, 0, 0, len, rev) : len \in 2..3, rev \in BOOLEAN}
    \cup {SplicedRead(0, 1, gap, 1, rev) : gap \in {1, 3}, rev \in BOOLEAN}

MatcherCfgs ==
    {[BaseCfg EXCEPT !.direction = d, !.overlap = o, !.multi_region = m] :
        d \in {"Forward", "Reverse", "Ignore"},
        o \in {"Union", "IntersectionStrict", "IntersectionNonEmpty"},
        m \in {"CountBoth", "Drop"}}
    \cup {[BaseCfg EXCEPT !.matcher = "ReferenceMatcher", !.direction = d] :
             d \in {"Forward", "Reverse", "Ignore"}}

InitMatcher ==
    /\ cfg \in MatcherCfgs
    /\ targets = <<[name |-> RefNames[1], len |-> 6]>>
    /\ \E t \in SubsetsUpTo(MatcherRegions, MaxMatcherRegions) : trees = [x \in {RefNames[1]} |-> t]
    /\ bam = <<>>
    /\ m_chunk \in MatcherChunks
    /\ m_read \in MatcherReads
    /\ m_hits = Unset

\* self.matcher.hits(chunk_str, chunk, read, interner) with a fresh interner
CallHits ==
    /\ m_hits = Unset
    /\ m_hits' = hits(m_chunk, m_read, <<>>)
    /\ UNCHANGED <<mil_vars, bc_cfg_vars, bc_vars, in_vars, cg_vars, cfg, w_vars, eng_vars, cb_vars,
                   gtf_vars, m_chunk, m_read>>

\* ---- what the claims about hits speak of

\* the identifiers a returned list resolves to
hit_names(list) == {resolve(m_hits.interner, list[k]) : k \in 1..Len(list)}

\* the reference positions of the read's aligned bases
read_positions ==
    {m_read.pos + k : k \in 0..(m_read.len - 1)}
    \cup {m_read.pos + m_read.len + m_read.gap + k : k \in 0..(m_read.len2 - 1)}

m_tree == trees[m_chunk.chr]

\* the list the strand table of the specification gives to a hit
table_list(region_strand) ==
    CASE region_strand = "Unstranded" \/ cfg.direction = "Ignore" -> "correct"
      [] cfg.direction = "Forward" ->
            IF (region_strand = "Reverse") = m_read.rev THEN "correct" ELSE "reverse"
      [] OTHER ->
            IF (region_strand = "Reverse") = m_read.rev THEN "reverse" ELSE "correct"

\* the positions covered by the regions of identifier g that fall to a list
region_positions(g, list_name) ==
    UNION {r.start..(r.end - 1) :
              r \in {x \in m_tree : x.gene = g /\ table_list(x.strand) = list_name}}

\* the aligned bases of the blocks that begin inside the chunk: a block
\* outside the chunk contributes no hits there
credited_positions ==
    {m_read.pos + k : k \in 0..(m_read.len - 1)}
    \cup (IF m_read.pos + m_read.len + m_read.gap < m_chunk.stop
          THEN {m_read.pos + m_read.len + m_read.gap + k : k \in 0..(m_read.len2 - 1)}
          ELSE {})

\* the identifiers with a region of a list overlapped by an aligned block
\* of the chunk
overlapped(list_name) ==
    {g \in {r.gene : r \in m_tree} : region_positions(g, list_name) \cap credited_positions /= {}}

\* the identifiers whose regions of a list contain every aligned base
fully_containing(list_name) ==
    {g \in {r.gene : r \in m_tree} : read_positions \subseteq region_positions(g, list_name)}

tree_matcher_called == m_hits /= Unset /\ cfg.matcher = "TreeMatcher"

returned(list_name) == IF list_name = "correct" THEN m_hits.correct ELSE m_hits.reverse

\* the read of the example: blocks [0,1) and [2,3)
example_read == m_read.pos = 0 /\ m_read.len = 1 /\ m_read.gap = 1 /\ m_read.len2 = 1

\* the regions of the example, all on one strand: A = [0,3), B = [0,1), C = [2,3)
example_tree ==
    \E s \in MatcherStrands :
        m_tree = {[start |-> 0, end |-> 3, gene |-> "gA", strand |-> s],
                  [start |-> 0, end |-> 1, gene |-> "gB", strand |-> s],
                  [start |-> 2, end |-> 3, gene |-> "gC", strand |-> s]}

\* C31: under intersection_strict an identifier is in a returned list only
\* if the regions of that identifier falling to the list contain every
\* aligned base of the read (merged intersected length = sum of the block
\* lengths); for blocks [0,1), [2,3) against A = [0,3), B = [0,1), C = [2,3)
\* the hits are exactly {A}.
C31_StrictOnlyFullyInside ==
    (tree_matcher_called /\ cfg.overlap = "IntersectionStrict") =>
        /\ \A l \in {"correct", "reverse"} : hit_names(returned(l)) \subseteq fully_containing(l)
        /\ (example_read /\ example_tree) =>
              hit_names(m_hits.correct) \cup hit_names(m_hits.reverse) = {"gA"}

\* the example of C31 has been matched under intersection_strict
C31_Witness ==
    /\ tree_matcher_called /\ cfg.overlap = "IntersectionStrict"
    /\ example_read /\ example_tree
    /\ hit_names(m_hits.correct) = {"gA"}

\* what intersection_non_empty is said to return for one list
non_empty_rule(list_name) ==
    IF fully_containing(list_name) /= {} THEN fully_containing(list_name)
    ELSE overlapped(list_name)

non_empty_called ==
    /\ tree_matcher_called
    /\ cfg.overlap = "IntersectionNonEmpty"
    /\ cfg.multi_region = "CountBoth"

\* every aligned block of the read lies inside the chunk
read_inside_chunk == credited_positions = read_positions

\* C32: under intersection_non_empty (multi-region policy count_both), if
\* some overlapped identifier's regions contain all aligned bases of the read
\* exactly those identifiers are returned; if none does, every identifier
\* with an overlapped region is returned; a list is empty only when the read
\* overlaps no region of it.
C32_NonEmptyRule ==
    non_empty_called =>
        \A l \in {"correct", "reverse"} : hit_names(returned(l)) = non_empty_rule(l)

\* C32, for reads whose aligned blocks all lie inside the chunk
C32_NonEmptyRuleInsideChunk ==
    (non_empty_called /\ read_inside_chunk) =>
        \A l \in {"correct", "reverse"} : hit_names(returned(l)) = non_empty_rule(l)

\* a spliced read lies fully inside gB, its second block in an exon past
\* chunk.stop, and is credited to the partially overlapped gA as well
C32_ContainedReadSharesCredit ==
    /\ non_empty_called
    /\ ~read_inside_chunk
    /\ fully_containing("correct") = {"gB"}
    /\ hit_names(m_hits.correct) = {"gA", "gB"}

\* inside the chunk both branches of the rule occur
C32_RuleApplied ==
    /\ non_empty_called /\ read_inside_chunk
    /\ fully_containing("correct") = {"gA"}
    /\ overlapped("correct") = {"gA", "gB"}
    /\ hit_names(m_hits.correct) = {"gA"}

no_repeats(list) == \A i, j \in 1..Len(list) : list[i] = list[j] => i = j

union_called == tree_matcher_called /\ cfg.overlap = "Union"

C33_Dropped ==
    /\ union_called /\ cfg.multi_region = "Drop"
    /\ Cardinality(overlapped("reverse")) = 2
    /\ m_hits.reverse = <<>>

\* the rows of the strand table: <<direction, read reverse?, region strand>>
\* of the hits that go to the reverse list; every other combination of the
\* 18 goes to the correct list
reverse_rows ==
    {<<"Forward", FALSE, "Reverse">>, <<"Forward", TRUE, "Forward">>,
     <<"Reverse", FALSE, "Forward">>, <<"Reverse", TRUE, "Reverse">>}

\* the single region of a tree of one region, overlapped by the read
single_region == CHOOSE r \in m_tree : TRUE

\* the tree holds one region and the overlap policy reports it for the read
single_region_hit ==
    /\ tree_matcher_called
    /\ Cardinality(m_tree) = 1
    /\ (single_region.start..(single_region.end - 1)) \cap credited_positions /= {}
    /\ cfg.overlap = "IntersectionStrict" =>
          read_positions \subseteq single_region.start..(single_region.end - 1)

\* C34: the hit on a region goes to the reverse list exactly for (forward,
\* forward read, reverse region), (forward, reverse read, forward region),
\* (reverse, forward read, forward region) and (reverse, reverse read,
\* reverse region), and to the correct list for the 14 other combinations
\* (orientation and strand agree under forward, disagree under reverse,
\* unstranded regions, direction ignore); it is never in both lists.
C34_StrandTable ==
    single_region_hit =>
        IF <<cfg.direction, m_read.rev, single_region.strand>> \in reverse_rows
        THEN m_hits.correct = <<>> /\ hit_names(m_hits.reverse) = {single_region.gene}
        ELSE hit_names(m_hits.correct) = {single_region.gene} /\ m_hits.reverse = <<>>

\* a reverse read on a forward region under direction reverse: correct list
C34_Witness ==
    /\ single_region_hit
    /\ cfg.overlap = "IntersectionStrict"
    /\ cfg.direction = "Reverse" /\ m_read.rev /\ single_region.strand = "Forward"
    /\ Len(m_hits.correct) = 1

\* the combinations of the table that have been matched
C34_AllCombinations ==
    \A d \in {"Forward", "Reverse", "Ignore"}, rev \in BOOLEAN, st \in MatcherStrands :
        \E t \in SubsetsUpTo(MatcherRegions, 1), rd \in MatcherReads :
            /\ Cardinality(t) = 1 /\ rd.rev = rev /\ (CHOOSE r \in t : TRUE).strand = st
            /\ (CHOOSE r \in t : TRUE).start <= rd.pos /\ rd.pos < (CHOOSE r \in t : TRUE).end

reference_matcher_called == m_hits /= Unset /\ cfg.matcher = "ReferenceMatcher"

\* C35 (as stated): the whole-reference matcher returns the reference name
\* as the single hit, in the correct list for every combination of direction
\* and read orientation (as a hit on an unstranded region), never in the
\* reverse list.
C35_ReferenceAlwaysCorrect ==
    reference_matcher_called =>
        /\ hit_names(m_hits.correct) = {m_chunk.chr}
        /\ Len(m_hits.correct) = 1
        /\ m_hits.reverse = <<>>

\* C35 (amended): the whole-reference matcher returns the reference name as
\* the single hit, in exactly one list, classified as a hit on a
\* forward-strand region: in the reverse list for (forward, reverse read)
\* and (reverse, forward read), in the correct list otherwise.
C35_ReferenceAsForwardRegion ==
    reference_matcher_called =>
        IF <<cfg.direction, m_read.rev, "Forward">> \in reverse_rows
        THEN m_hits.correct = <<>> /\ Len(m_hits.reverse) = 1
             /\ hit_names(m_hits.reverse) = {m_chunk.chr}
        ELSE m_hits.reverse = <<>> /\ Len(m_hits.correct) = 1
             /\ hit_names(m_hits.correct) = {m_chunk.chr}

\* a reverse read under direction forward: the reference is in the reverse list
C35_Witness ==
    /\ reference_matcher_called
    /\ cfg.direction = "Forward" /\ m_read.rev
    /\ hit_names(m_hits.reverse) = {m_chunk.chr}

NextMIL == CallMergedIntervalLength

InitSpecMIL == InitMIL /\ IdleBarcodeCfg /\ IdleBarcode /\ IdleInputs /\ IdleChunker /\ IdleWorker /\ IdleEngine /\ IdleCombine /\ IdleGtf /\ IdleMatcher

SpecMIL == InitSpecMIL /\ [][NextMIL]_vars

NextBarcode ==
    \/ CallCorrect
    \/ CallCorrectAgain

InitSpecBarcode == IdleMIL /\ InitBarcode /\ IdleInputs /\ IdleChunker /\ IdleWorker /\ IdleEngine /\ IdleCombine /\ IdleGtf /\ IdleMatcher

SpecBarcode == InitSpecBarcode /\ [][NextBarcode]_vars

NextChunker ==
    \/ CgNextBegin
    \/ CgLoopExtend
    \/ CgLoopBreak
    \/ CgExhausted

InitSpecChunker ==
    /\ IdleMIL /\ IdleBarcodeCfg /\ IdleBarcode
    /\ InitChunkerInputs /\ ChunkedGenome_iter /\ IdleWorker /\ IdleEngine /\ IdleCombine /\ IdleGtf /\ IdleMatcher

SpecChunker == InitSpecChunker /\ [][NextChunker]_vars

\* the caller collects the iterator: next() is called until it returns None,
\* and a call runs until it returns
SpecChunkerLive == InitSpecChunker /\ [][NextChunker]_vars /\ WF_vars(NextChunker)

NextWorker ==
    \/ WReadRecord
    \/ WReturnNextPos
    \/ WEndOfWindow
    \/ WWriteAnnotatedReads

InitSpecWorker == IdleMIL /\ IdleBarcode /\ IdleChunker /\ InitWorker /\ IdleEngine /\ IdleCombine /\ IdleGtf /\ IdleMatcher

SpecWorker == InitSpecWorker /\ [][NextWorker]_vars

NextEngine ==
    \/ CgNextBegin
    \/ CgLoopExtend
    \/ CgLoopBreak
    \/ CgExhausted
    \/ GenerateChunksReference
    \/ StartPool
    \/ TaskLockForPerChunk
    \/ TaskPerChunk
    \/ TaskRun
    \/ TaskLockForCountReads
    \/ TaskMerge
    \/ ReturnResult

InitSpecEngine == IdleMIL /\ IdleBarcode /\ IdleTask /\ InitEngine /\ IdleCombine /\ IdleGtf /\ IdleMatcher

SpecEngine == InitSpecEngine /\ [][NextEngine]_vars

\* the guard of TaskRun: the closure of some chunk is between bam.fetch and
\* its second lock statement
TaskRun_guard == result = [tag |-> "Running"] /\ \E i \in 1..Len(tasks) : tasks[i].pc = "read"

\* the steps of quantify_bam other than TaskRun
NextEngineButRun ==
    \/ CgNextBegin
    \/ CgLoopExtend
    \/ CgLoopBreak
    \/ CgExhausted
    \/ GenerateChunksReference
    \/ StartPool
    \/ TaskLockForPerChunk
    \/ TaskPerChunk
    \/ TaskLockForCountReads
    \/ TaskMerge
    \/ ReturnResult

\* the thread pool runs every closure to its end and the calling thread goes
\* on when pool.install returns: a step is taken as long as one is possible.
\* The weak fairness of TaskRun is written with its guard: a TaskRun step
\* takes its task out of "read", so the guard cannot hold forever.
SpecEngineLive ==
    /\ InitSpecEngine
    /\ [][NextEngine]_vars
    /\ WF_vars(NextEngineButRun)
    /\ []<>(~TaskRun_guard)

NextCombine == CallCombineTemporaryBams

InitSpecCombine ==
    /\ IdleMIL /\ IdleBarcodeCfg /\ IdleBarcode /\ IdleInputs /\ IdleChunker /\ IdleWorker
    /\ IdleEngine /\ InitCombine /\ IdleGtf /\ IdleMatcher

SpecCombine == InitSpecCombine /\ [][NextCombine]_vars

NextGtf == ReadGtf

InitSpecGtf ==
    /\ IdleMIL /\ IdleBarcodeCfg /\ IdleBarcode /\ IdleInputs /\ IdleChunker /\ IdleWorker
    /\ IdleEngine /\ IdleCombine /\ InitGtf /\ IdleMatcher

SpecGtf == InitSpecGtf /\ [][NextGtf]_vars

NextTally ==
    \/ TallyCount
    \/ TallyMerge

InitSpecTally ==
    /\ IdleMIL /\ IdleBarcodeCfg /\ IdleBarcode /\ IdleInputs /\ IdleChunker /\ InitTally
    /\ IdleCombine /\ IdleGtf /\ IdleMatcher

SpecTally == InitSpecTally /\ [][NextTally]_vars

NextMatcher == CallHits

InitSpecMatcher ==
    /\ IdleMIL /\ IdleBarcodeCfg /\ IdleBarcode /\ IdleChunker /\ IdleTask /\ IdleEngine
    /\ IdleCombine /\ IdleGtf /\ InitMatcher

SpecMatcher == InitSpecMatcher /\ [][NextMatcher]_vars

====
